---- MODULE Spec2Model ----
(***************************************************************************)
(* Qwen2API gateway: request orchestration and streaming translation.      *)
(*                                                                         *)
(* The module models the entry points of the gateway as state machines     *)
(* over one set of variables:                                              *)
(*   - CompletionService._post_with_retry and stream_completion            *)
(*     (app/service/completion_service.py),                                *)
(*   - RequestService._request and _request_stream piped through the       *)
(*     endpoint's stream_response_generator (app/services/request.py,      *)
(*     app/api/v1/endpoints/chat.py),                                      *)
(*   - AccountManager.get_account_token and the pool mutations             *)
(*     (app/services/account.py),                                          *)
(*   - UploadService.save_url with its cache lifecycle                     *)
(*     (app/service/upload_service.py),                                    *)
(*   - TaskService._poll_task / RequestService.await_image,                *)
(*   - AccountManager.re_login / login_with_credentials under concurrent   *)
(*     execute calls (app/services/account.py),                            *)
(*   - AccountManager.save_accounts / load_accounts across crashes,        *)
(*   - process_user_images and the content loop of                         *)
(*     RequestService.chat_completion around UploadService.save_url,       *)
(*   - the AccountManager instances of the service layer, which share      *)
(*     config/accounts.yml (app/core/account_manager.py,                   *)
(*     app/service/account_service.py).                                    *)
(* Each component has its own specification (SpecGateway, SpecPool,        *)
(* SpecUpload, SpecPoll with its fair variant FairSpecPoll, SpecRefresh,   *)
(* SpecPersist, SpecAttach, SpecInst); the variables of the other          *)
(* components keep their initial value.                                    *)
(***************************************************************************)
EXTENDS Integers, Sequences, FiniteSets, TLC

(***************************************************************************)
(* Bounds of the model.                                                    *)
(***************************************************************************)
\* number of backend lines one response stream delivers before it ends
MaxLines == 3
\* nesting depth of the 401 re-entry of _request / _request_stream
MaxDepth == 2
\* accounts the pool holds at most
MaxAccounts == 3
\* get_account_token calls that hand out a token
MaxRequests == 5
\* save_url calls one UploadService serves
MaxSaves == 2
\* largest max_retries a poll is called with
MaxRetries == 3
\* the clock of a poll stops advancing here
MaxElapsed == 8
\* execute calls that run concurrently on one AccountManager
MaxWorkers == 2
\* logins the signin endpoint is asked for
MaxSignins == 3
\* crashes of the process while the accounts file is kept
MaxCrashes == 2
\* items of the content list of one user message
MaxItems == 2

(***************************************************************************)
(* Text.  A content string is a sequence of tokens; a token is a think     *)
(* marker, a piece of text, or a rendered search table.                    *)
(***************************************************************************)
Tok(k, v, rows) == [k |-> k, v |-> v, rows |-> rows]

think_tag_start == Tok("open", "<think>", <<>>)

think_tag_end == Tok("close", "</think>", <<>>)

Text(s) == Tok("text", s, <<>>)

IsMarker(t) == t.k \in {"open", "close"}

\* Python's `tok in content`
Contains(content, tok) == \E i \in 1..Len(content) : content[i] = tok

\* Python's content.replace(tok, by): every occurrence is replaced
RECURSIVE Replace(_, _, _)
Replace(content, tok, by) ==
    IF content = <<>> THEN <<>>
    ELSE (IF Head(content) = tok THEN by ELSE <<Head(content)>>)
         \o Replace(Tail(content), tok, by)

\* the search results a backend frame can carry (a site is its number)
Payloads == {<<>>, <<2, 1>>}

\* AccountManager.generate_markdown_table: "" for no websites, else the
\* header (table mode only) and one row per website, numbered from 1, in
\* the order of the list
generate_markdown_table(websites, mode) ==
    IF websites = <<>> THEN <<>>
    ELSE <<Tok("table", mode,
               [i \in 1..Len(websites) |-> <<i, websites[i]>>])>>

\* the table stream_completion renders itself for a web_search delta:
\* rows numbered from 1 (enumerate(web_search_info, 1))
CompletionTable(web_search_info) ==
    IF web_search_info = <<>> THEN <<>>
    ELSE <<Tok("table", "completion",
               [i \in 1..Len(web_search_info) |-> <<i, web_search_info[i]>>])>>

(***************************************************************************)
(* Backend lines.  t is the shape of the line:                             *)
(*   delta     a choice with delta.content (phase think/answer/null)       *)
(*   search    a delta named web_search carrying delta.content; extra says *)
(*             whether delta.extra.web_search_info is present              *)
(*   nameonly  a delta named web_search without a content key              *)
(*   finish    a choice with finish_reason "stop"                          *)
(*   nochoices valid JSON without choices                                  *)
(*   malformed `data: ` followed by text that is not JSON                  *)
(*   nondata   a non-empty line that does not start with `data: `          *)
(*   donemark  the literal line `data: [DONE]`                             *)
(***************************************************************************)
Line(t, phase, content, info, extra) ==
    [t |-> t, phase |-> phase, content |-> content, info |-> info,
     extra |-> extra]

SearchLines ==
    {Line("search", "null", <<>>, p, TRUE) : p \in Payloads}
    \cup {Line("search", "null", <<>>, <<>>, FALSE)}

OtherLines ==
    {Line("finish", "answer", <<>>, <<>>, FALSE),
     Line("nochoices", "null", <<>>, <<>>, FALSE),
     Line("malformed", "null", <<>>, <<>>, FALSE),
     Line("nondata", "null", <<>>, <<>>, FALSE),
     Line("donemark", "null", <<>>, <<>>, FALSE)}

\* the phase-marked protocol stream_completion reads: content is one segment
CompletionLines ==
    {Line("delta", "think", <<Text("a")>>, <<>>, FALSE),
     Line("delta", "think", <<Text("b")>>, <<>>, FALSE),
     Line("delta", "answer", <<Text("a")>>, <<>>, FALSE),
     Line("delta", "null", <<Text("a")>>, <<>>, FALSE)}
    \cup SearchLines \cup OtherLines

\* the protocol _request_stream reads: the backend writes the think markers
\* into the content itself
RequestLines ==
    {Line("delta", "think", <<think_tag_start, Text("a")>>, <<>>, FALSE),
     Line("delta", "think", <<Text("a")>>, <<>>, FALSE),
     Line("delta", "think", <<think_tag_start, Text("a"), think_tag_start>>,
          <<>>, FALSE),
     Line("delta", "answer", <<Text("a")>>, <<>>, FALSE),
     Line("nameonly", "null", <<>>, <<2, 1>>, TRUE)}
    \cup SearchLines \cup OtherLines

(***************************************************************************)
(* Output chunks.  kind is the shape of the JSON of the chunk:             *)
(*   content  choices[0].delta.content is the token sequence `content`     *)
(*   search   stream_completion's chunk for a web_search delta             *)
(*   error    {"error": ...}, no choices; content lists what of the        *)
(*            backend response the error text holds                        *)
(*   done     the terminal sentinel `data: [DONE]\n\n`                     *)
(***************************************************************************)
Chunk(kind, content) == [kind |-> kind, content |-> content]

DONE == Chunk("done", <<>>)

\* {'error': str(e)}: the text of an exception
ErrorChunk == Chunk("error", <<>>)

\* {'error': '请求失败: ' + errtxt}: the body of the backend response (the
\* status code is not part of the text)
ResponseErrorChunk == Chunk("error", <<Text("response.text")>>)

(***************************************************************************)
(* State.                                                                  *)
(***************************************************************************)
VARIABLES
    \* ---- gateway: one execute call -------------------------------------
    impl,                 \* the entry point this run executes
    pc,                   \* "call": about to issue a backend call,
                          \* "stream": reading the response lines, "done"
    attempt,              \* 429 attempts consumed
    token_refresh_count,  \* refreshes done by this call
    token,                \* the token the next backend call carries
    depth,                \* 401 re-entries of _request / _request_stream
    calls,                \* backend calls made: <<[token, status]>>
    sleeps,               \* asyncio.sleep durations, in order
    logins,               \* logins (refreshes) performed
    loginOk,              \* whether the signin endpoint accepts the login
    pool,                 \* tokens of the accounts list, in list order
    result,               \* single mode: what execute returned or raised
    thinking_enabled,     \* stream_response_generator's argument
    search_info_mode,     \* config chat.search_info_mode
    in_think_phase,       \* stream_completion's translator state
    web_search_info,      \* stream_response_generator's buffered payload
    temp_content,         \* _request_stream: a non-data line is pending
    fed,                  \* backend lines delivered on the stream so far
    marks,                \* marks[i]: chunks emitted once line i was handled
    out                   \* chunks emitted to the client, in order

gatewayVars ==
    <<impl, pc, attempt, token_refresh_count, token, depth, calls, sleeps,
      logins, loginOk, pool, result, thinking_enabled, search_info_mode,
      in_think_phase, web_search_info, temp_content, fed, marks, out>>

VARIABLES
    \* ---- credential pool: one AccountManager -----------------------------
    accounts,             \* the accounts list: <<[username, token, enabled]>>
    current_index,        \* the round-robin cursor
    request_number,       \* tokens handed out so far
    error_account_tokens, \* tokens the last validity check rejected
    acquired,             \* what the last get_account_token call produced
    handed                \* tokens returned since the accounts list last
                          \* changed, in call order

poolVars ==
    <<accounts, current_index, request_number, error_account_tokens,
      acquired, handed>>

VARIABLES
    \* ---- upload service: one UploadService and its event loop ------------
    upload_cache,         \* digest -> URL, NoUrl where the digest is absent
    cache_loaded,         \* the load task has finished
    load_cache_launched,  \* a load task has started running
    load_tasks,           \* load tasks created and not yet run
    loading,              \* a load task is suspended reading the file
    load_runs,            \* times the body of the load task was entered
    save_tasks,           \* cache write tasks created and not yet finished
    writing,              \* a write task has opened (truncated) the file
    disk,                 \* data/upload.json
    saves                 \* the save_url calls, one record per call

uploadVars ==
    <<upload_cache, cache_loaded, load_cache_launched, load_tasks, loading,
      load_runs,
      save_tasks, writing, disk, saves>>

VARIABLES
    \* ---- task poller: one _poll_task call --------------------------------
    max_retries,          \* arguments of the call
    retry_interval,
    timeout,
    poll_pc,              \* "check": about to query the status,
                          \* "sleep": inside asyncio.sleep, "done"
    retry_count,          \* attempts consumed
    elapsed,              \* time.time() - start_time
    events,               \* status checks and sleeps, in order
    poll_result,          \* the status of the response returned
    poller,               \* the loop that runs
    poll_payload          \* what the response carries: "message" (the
                          \* message of the backend), "content" (the URL)

pollVars ==
    <<max_retries, retry_interval, timeout, poll_pc, retry_count, elapsed,
      events, poll_result, poller, poll_payload>>

VARIABLES
    \* ---- refresh: concurrent execute calls on the pool's accounts ---------
    wpc,                  \* per call: "idle", "call" (about to issue a
                          \* backend call), "login" (its login is awaiting
                          \* the signin endpoint), "done"
    wtoken,               \* per call: the token it carries
    wuser,                \* per call: the username its login is for, 0
    signins,              \* logins started so far
    failed_refresh,       \* usernames whose latest login was refused
    after_failure,        \* what happened to a username while it was in
                          \* failed_refresh: its token was handed out
                          \* ("acquired"), a login for it was started ("login")
    logged_out            \* usernames disabled through logout

refreshVars ==
    <<wpc, wtoken, wuser, signins, failed_refresh, after_failure, logged_out>>

VARIABLES
    \* ---- persistence of the accounts list (uses accounts of the pool) ----
    accounts_file,        \* accounts.yml
    persist_pc,           \* "idle"; "mutated": a mutation changed the list
                          \* and is about to save; "opened": save_accounts
                          \* has opened the file for writing; "reloaded":
                          \* the process crashed and has loaded the file
    committed,            \* the list as the last mutation that returned
                          \* left it
    crashes               \* crashes so far

persistVars == <<accounts_file, persist_pc, committed, crashes>>

\* one chat request that carries attachments
VARIABLES
    orchestrator,    \* which code prepares the messages of the request
    user_content,    \* the content list of the user message, as received
    item_pos,        \* the item the loop over content stands at
    attach_pc,       \* "item"; "materialize"; "upload"; "done"
    new_content,     \* the content list built so far
    failed_items,    \* positions of the items whose save_url call failed
    completion       \* "none"; "issued"; "aborted"

attachVars ==
    <<orchestrator, user_content, item_pos, attach_pc, new_content, failed_items,
      completion>>

\* the AccountManager instances (app/core/account_manager.py) of one process
VARIABLES
    inst_accounts,   \* per instance: self.accounts
    core_file,       \* config/accounts.yml: the accounts list it holds
    inst_logins,     \* logins the signin endpoint has accepted
    last_login       \* the last AccountService.login call

instVars == <<inst_accounts, core_file, inst_logins, last_login>>

vars ==
    <<gatewayVars, poolVars, uploadVars, pollVars, refreshVars, persistVars,
      attachVars, instVars>>

(***************************************************************************)
(* Values the components start from, and the state of a component that is  *)
(* not running.                                                            *)
(***************************************************************************)
\* get_account_token: nothing acquired yet ("none"), a token was returned
\* ("token"), or ValueError was raised ("ValueError")
NoToken == "none"

PoolIdle ==
    /\ accounts = <<>>
    /\ current_index = 0
    /\ request_number = 0
    /\ error_account_tokens = <<>>
    /\ acquired = NoToken
    /\ handed = <<>>

\* payloads (image bytes) and the absent URL (None)
Blobs == {"x", "y"}

\* what a save_url input stands for: a URL on the vendor's asset host, a URL
\* of another host that contains the text 'cdn.qwen.ai', or image bytes
Sources == {"vendor", "lookalike"} \cup Blobs

NoUrl == 0

\* UploadService.__init__: upload_cache = {}
EmptyCache == [b \in Blobs |-> NoUrl]

\* data/upload.json: absent, empty (content.strip() is empty), or a JSON map
NoFile == [state |-> "absent", map |-> EmptyCache]

EmptyFile == [state |-> "empty", map |-> EmptyCache]

JsonFile(map) == [state |-> "ok", map |-> map]

\* a save_url call that has not started
IdleSave ==
    [pc |-> "idle", x |-> "x", url |-> NoUrl, alone |-> FALSE,
     kept |-> FALSE, uploaded |-> 0]

UploadIdle ==
    /\ upload_cache = EmptyCache
    /\ cache_loaded = FALSE
    /\ load_cache_launched = FALSE
    /\ load_tasks = 0
    /\ load_runs = 0
    /\ loading = FALSE
    /\ save_tasks = 0
    /\ writing = FALSE
    /\ disk = NoFile
    /\ saves = [c \in 1..MaxSaves |-> IdleSave]

RefreshIdle ==
    /\ wpc = [w \in 1..MaxWorkers |-> "done"]
    /\ wtoken = [w \in 1..MaxWorkers |-> 0]
    /\ wuser = [w \in 1..MaxWorkers |-> 0]
    /\ signins = 0
    /\ failed_refresh = {}
    /\ after_failure = {}
    /\ logged_out = {}

\* the module-level account_service of completion_service.py (its
\* AccountManager serves the refresh on a 401), CompletionService's own
\* AccountManager, and the AccountManager of the account router's
\* AccountService
Instances == {"refresh", "completion", "admin"}

NoLogin == [instance |-> "none", username |-> 0, accepted |-> FALSE,
            known |-> FALSE, result |-> "none"]

InstIdle ==
    /\ inst_accounts = [i \in Instances |-> <<>>]
    /\ core_file = <<>>
    /\ inst_logins = 0
    /\ last_login = NoLogin

AttachIdle ==
    /\ orchestrator = "none"
    /\ user_content = <<>>
    /\ item_pos = 1
    /\ attach_pc = "done"
    /\ new_content = <<>>
    /\ failed_items = {}
    /\ completion = "none"

PersistIdle ==
    /\ accounts_file = [state |-> "absent", list |-> <<>>]
    /\ persist_pc = "idle"
    /\ committed = <<>>
    /\ crashes = 0

PollIdle ==
    /\ max_retries = 0
    /\ retry_interval = 0
    /\ timeout = 0
    /\ poll_pc = "done"
    /\ retry_count = 0
    /\ elapsed = 0
    /\ events = <<>>
    /\ poll_result = "none"
    /\ poller = "none"
    /\ poll_payload = "none"

(***************************************************************************)
(* The backend and the transport.                                          *)
(***************************************************************************)
\* a call answers with an HTTP status, or httpx raises
TransportTimeout == -1

TransportError == -2

Responses == {200, 401, 429, 500, TransportTimeout, TransportError}

\* the token the caller acquired, another account's token, refreshed tokens
AuthToken == 1

OtherToken == 2

FreshToken(n) == 10 + n

Pools == {<<>>, <<AuthToken>>, <<OtherToken, AuthToken>>}

\* stream_response_generator's buffer: None, or the payload of the last
\* search frame
None == [some |-> FALSE, items |-> <<>>]

Some(items) == [some |-> TRUE, items |-> items]

\* Python truthiness of the buffer: None and [] are false
Truthy(w) == w.some /\ w.items # <<>>

\* what a single-mode execute produced: the response it returned, or the
\* exception it raised (why names the exception, status the HTTP status or
\* transport failure behind it)
NoResult == [kind |-> "none", status |-> 0, why |-> ""]

Returned(status) == [kind |-> "ok", status |-> status, why |-> ""]

Raised(status, why) == [kind |-> "raised", status |-> status, why |-> why]

(***************************************************************************)
(* Initial state of one execute call.                                      *)
(***************************************************************************)
Impls == {"post_with_retry", "request", "stream_completion", "request_stream"}

InitGateway ==
    /\ impl \in Impls
    /\ pc = "call"
    /\ attempt = 0
    /\ token_refresh_count = 0
    /\ token = AuthToken
    /\ depth = 0
    /\ calls = <<>>
    /\ sleeps = <<>>
    /\ logins = 0
    /\ loginOk \in BOOLEAN
    /\ pool \in Pools
    /\ result = NoResult
    \* only stream_response_generator reads these two
    /\ thinking_enabled \in (IF impl = "request_stream" THEN BOOLEAN
                              ELSE {FALSE})
    /\ search_info_mode \in (IF impl = "request_stream"
                              THEN {"table", "text"} ELSE {"table"})
    /\ in_think_phase = FALSE
    /\ web_search_info = None
    /\ temp_content = FALSE
    /\ fed = <<>>
    /\ marks = <<>>
    /\ out = <<>>
    /\ PoolIdle
    /\ UploadIdle
    /\ PollIdle
    /\ RefreshIdle
    /\ PersistIdle
    /\ AttachIdle
    /\ InstIdle

\* no execute call is running
GatewayIdle ==
    /\ impl = "post_with_retry"
    /\ pc = "done"
    /\ attempt = 0
    /\ token_refresh_count = 0
    /\ token = AuthToken
    /\ depth = 0
    /\ calls = <<>>
    /\ sleeps = <<>>
    /\ logins = 0
    /\ loginOk = FALSE
    /\ pool = <<>>
    /\ result = NoResult
    /\ thinking_enabled = FALSE
    /\ search_info_mode = "table"
    /\ in_think_phase = FALSE
    /\ web_search_info = None
    /\ temp_content = FALSE
    /\ fed = <<>>
    /\ marks = <<>>
    /\ out = <<>>

(***************************************************************************)
(* CompletionService.stream_completion                                     *)
(***************************************************************************)
max_token_refresh == 1

max_429_retry == 5

\* AccountManager.get_account_by_token (core): found wherever it sits
get_account_by_token(tokens, t) == \E i \in 1..Len(tokens) : tokens[i] = t

\* 2 ** attempt
Pow2(n) == IF n = 0 THEN 1 ELSE IF n = 1 THEN 2 ELSE IF n = 2 THEN 4
           ELSE IF n = 3 THEN 8 ELSE 16

\* faulty variant of wait_time: a linear backoff, 2 * attempt
wait_time_linear(n) == 2 * n

wait_time(n) == Pow2(n)

\* one pass of the `while attempt < max_429_retry` loop: the backend call
\* and the handling of its status
SC_Call ==
    /\ impl = "stream_completion"
    /\ pc = "call"
    /\ attempt < max_429_retry
    /\ \E status \in Responses :
        /\ calls' = Append(calls, [token |-> token, status |-> status])
        /\ IF status \in {TransportTimeout, TransportError}
           THEN \* except Exception: error chunk, sentinel, return
                /\ out' = out \o <<ErrorChunk, DONE>>
                /\ pc' = "done"
                /\ UNCHANGED <<attempt, token_refresh_count, token, sleeps,
                               logins>>
           ELSE IF status = 401 /\ token_refresh_count < max_token_refresh
           THEN IF ~get_account_by_token(pool, AuthToken)
                THEN \* account is None: account['username'] raises
                     /\ out' = out \o <<ErrorChunk, DONE>>
                     /\ pc' = "done"
                     /\ UNCHANGED <<attempt, token_refresh_count, token,
                                    sleeps, logins>>
                ELSE IF ~loginOk
                THEN \* account_service.login raises HTTPException
                     /\ logins' = logins + 1
                     /\ out' = out \o <<ErrorChunk, DONE>>
                     /\ pc' = "done"
                     /\ UNCHANGED <<attempt, token_refresh_count, token,
                                    sleeps>>
                ELSE /\ logins' = logins + 1
                     /\ token' = FreshToken(logins + 1)
                     /\ token_refresh_count' = token_refresh_count + 1
                     /\ UNCHANGED <<attempt, sleeps, out, pc>>
           ELSE IF status = 429 /\ attempt < max_429_retry - 1
           THEN /\ sleeps' = Append(sleeps, wait_time(attempt))
                /\ attempt' = attempt + 1
                /\ UNCHANGED <<token_refresh_count, token, logins, out, pc>>
           ELSE IF status >= 400
           THEN /\ out' = out \o <<ResponseErrorChunk, DONE>>
                /\ pc' = "done"
                /\ UNCHANGED <<attempt, token_refresh_count, token, sleeps,
                               logins>>
           ELSE \* success: the stream is read from here
                /\ pc' = "stream"
                /\ UNCHANGED <<attempt, token_refresh_count, token, sleeps,
                               logins, out>>
    /\ in_think_phase' = FALSE
    /\ UNCHANGED <<poolVars, uploadVars, pollVars, refreshVars, persistVars,
                   attachVars, instVars>>
    /\ UNCHANGED <<impl, depth, loginOk, pool, result, thinking_enabled,
                   search_info_mode, web_search_info, temp_content, fed, marks>>

\* faulty variant of SC_Translate: an answer delta is always prefixed with
\* the think-close marker, whatever in_think_phase is
SC_Translate_close_always(l, think) ==
    IF l.t \in {"nondata", "nochoices"} THEN <<>>
    ELSE IF l.t = "malformed" THEN <<ErrorChunk>>
    ELSE IF l.t \in {"search", "nameonly"}
    THEN <<Chunk("search", IF l.extra THEN CompletionTable(l.info) ELSE <<>>)>>
    ELSE IF l.phase = "think"
    THEN <<Chunk("content", IF ~think THEN <<think_tag_start>> \o l.content
                            ELSE l.content)>>
    ELSE IF l.phase = "answer"
    THEN <<Chunk("content", <<think_tag_end>> \o l.content)>>
    ELSE <<Chunk("content", l.content)>>

\* the chunks stream_completion yields for one line of the response
SC_Translate(l, think) ==
    IF l.t \in {"nondata", "nochoices"} THEN <<>>
    ELSE IF l.t = "malformed" THEN <<ErrorChunk>>
    ELSE IF l.t \in {"search", "nameonly"}
    THEN <<Chunk("search", IF l.extra THEN CompletionTable(l.info) ELSE <<>>)>>
    ELSE IF l.phase = "think"
    THEN <<Chunk("content", IF ~think THEN <<think_tag_start>> \o l.content
                            ELSE l.content)>>
    ELSE IF l.phase = "answer"
    THEN <<Chunk("content", IF think THEN <<think_tag_end>> \o l.content
                            ELSE l.content)>>
    ELSE <<Chunk("content", l.content)>>

\* faulty variant of SC_NextThink: an answer delta does not leave the think
\* phase
SC_NextThink_stuck(l, think) ==
    IF l.t \in {"delta", "finish"} /\ l.phase = "think" THEN TRUE ELSE think

\* in_think_phase after the line
SC_NextThink(l, think) ==
    IF l.t \in {"delta", "finish"}
    THEN IF l.phase = "think" THEN TRUE
         ELSE IF l.phase = "answer" THEN FALSE ELSE think
    ELSE think

\* one line of `async for line in response.aiter_lines()`
SC_Line ==
    /\ impl = "stream_completion"
    /\ pc = "stream"
    /\ Len(fed) < MaxLines
    /\ \E l \in CompletionLines :
        /\ fed' = Append(fed, l)
        /\ IF l.t = "donemark"
           THEN /\ out' = Append(out, DONE)
                /\ pc' = "done"
                /\ UNCHANGED in_think_phase
           ELSE /\ out' = out \o SC_Translate(l, in_think_phase)
                /\ in_think_phase' = SC_NextThink(l, in_think_phase)
                /\ UNCHANGED pc
        /\ marks' = Append(marks, Len(out'))
    /\ UNCHANGED <<poolVars, uploadVars, pollVars, refreshVars, persistVars,
                   attachVars, instVars>>
    /\ UNCHANGED <<impl, attempt, token_refresh_count, token, depth, calls,
                   sleeps, logins, loginOk, pool, result, thinking_enabled,
                   search_info_mode, web_search_info, temp_content>>

\* the response ends without a `[DONE]` line
SC_End ==
    /\ impl = "stream_completion"
    /\ pc = "stream"
    /\ out' = Append(out, DONE)
    /\ pc' = "done"
    /\ UNCHANGED <<poolVars, uploadVars, pollVars, refreshVars, persistVars,
                   attachVars, instVars>>
    /\ UNCHANGED <<impl, attempt, token_refresh_count, token, depth, calls,
                   sleeps, logins, loginOk, pool, result, thinking_enabled,
                   search_info_mode, in_think_phase, web_search_info,
                   temp_content, fed, marks>>

\* the transport raises while the lines are read
SC_TransportError ==
    /\ impl = "stream_completion"
    /\ pc = "stream"
    /\ out' = out \o <<ErrorChunk, DONE>>
    /\ pc' = "done"
    /\ UNCHANGED <<poolVars, uploadVars, pollVars, refreshVars, persistVars,
                   attachVars, instVars>>
    /\ UNCHANGED <<impl, attempt, token_refresh_count, token, depth, calls,
                   sleeps, logins, loginOk, pool, result, thinking_enabled,
                   search_info_mode, in_think_phase, web_search_info,
                   temp_content, fed, marks>>

(***************************************************************************)
(* CompletionService._post_with_retry (single mode, called by              *)
(* chat_completion with headers = cookie_service.get_headers(auth_token))  *)
(***************************************************************************)
\* CookieService.get_headers: the keys that depend on the token.  The token
\* is stored under the lower-case key "authorization".
get_headers(t) == IF t # 0 THEN {"authorization"} ELSE {}

PR_Call ==
    /\ impl = "post_with_retry"
    /\ pc = "call"
    /\ attempt < max_429_retry
    /\ \E status \in Responses :
        /\ calls' = Append(calls, [token |-> token, status |-> status])
        /\ IF status \in {TransportTimeout, TransportError}
           THEN \* except Exception: break, raise last_exception
                /\ result' = Raised(status, "transport")
                /\ pc' = "done"
                /\ UNCHANGED <<attempt, token_refresh_count, token, sleeps,
                               logins>>
           ELSE IF status = 401 /\ token_refresh_count < max_token_refresh
           THEN IF "Authorization" \notin get_headers(AuthToken)
                THEN \* headers['Authorization'] raises KeyError
                     /\ result' = Raised(status, "KeyError")
                     /\ pc' = "done"
                     /\ UNCHANGED <<attempt, token_refresh_count, token,
                                    sleeps, logins>>
                ELSE IF ~get_account_by_token(pool, AuthToken)
                THEN /\ result' = Raised(status, "TypeError")
                     /\ pc' = "done"
                     /\ UNCHANGED <<attempt, token_refresh_count, token,
                                    sleeps, logins>>
                ELSE IF ~loginOk
                THEN /\ logins' = logins + 1
                     /\ result' = Raised(status, "login")
                     /\ pc' = "done"
                     /\ UNCHANGED <<attempt, token_refresh_count, token,
                                    sleeps>>
                ELSE /\ logins' = logins + 1
                     /\ token' = FreshToken(logins + 1)
                     /\ token_refresh_count' = token_refresh_count + 1
                     /\ UNCHANGED <<attempt, sleeps, result, pc>>
           ELSE IF status = 429 /\ attempt < max_429_retry - 1
           THEN /\ sleeps' = Append(sleeps, wait_time(attempt))
                /\ attempt' = attempt + 1
                /\ UNCHANGED <<token_refresh_count, token, logins, result, pc>>
           ELSE IF status >= 400
           THEN \* resp.raise_for_status()
                /\ result' = Raised(status, "HTTPStatusError")
                /\ pc' = "done"
                /\ UNCHANGED <<attempt, token_refresh_count, token, sleeps,
                               logins>>
           ELSE /\ result' = Returned(status)
                /\ pc' = "done"
                /\ UNCHANGED <<attempt, token_refresh_count, token, sleeps,
                               logins>>
    /\ UNCHANGED <<poolVars, uploadVars, pollVars, refreshVars, persistVars,
                   attachVars, instVars>>
    /\ UNCHANGED <<impl, depth, loginOk, pool, thinking_enabled,
                   search_info_mode, in_think_phase, web_search_info,
                   temp_content, fed, marks, out>>

(***************************************************************************)
(* AccountManager.re_login (services): the loop returns on its first       *)
(* iteration, so only the first account of the list is compared with the   *)
(* token; an empty list falls out of the loop and returns None.            *)
(***************************************************************************)
re_login(tokens, t) ==
    IF tokens = <<>> THEN "none"
    ELSE IF tokens[1] = t
         THEN (IF loginOk THEN "success" ELSE "failed")
         ELSE "notfound"

(***************************************************************************)
(* RequestService._request (single mode)                                   *)
(***************************************************************************)
RQ_Call ==
    /\ impl = "request"
    /\ pc = "call"
    /\ \E status \in Responses :
        /\ status = 401 => depth < MaxDepth
        /\ calls' = Append(calls, [token |-> token, status |-> status])
        /\ IF status \in {TransportTimeout, TransportError}
           THEN /\ result' = Raised(status, "transport")
                /\ pc' = "done"
                /\ UNCHANGED <<depth, logins, pool>>
           ELSE IF status = 200
           THEN /\ result' = Returned(status)
                /\ pc' = "done"
                /\ UNCHANGED <<depth, logins, pool>>
           ELSE IF status = 401
           THEN \* re_login(auth_token), then _request again with the same
                \* auth_token
                LET r == re_login(pool, AuthToken) IN
                IF r = "success"
                THEN /\ logins' = logins + 1
                     /\ pool' = [pool EXCEPT ![1] = FreshToken(logins + 1)]
                     /\ depth' = depth + 1
                     /\ UNCHANGED <<result, pc>>
                ELSE /\ logins' = IF r = "failed" THEN logins + 1 ELSE logins
                     /\ result' = Raised(status, IF r = "none"
                                                 THEN "AttributeError"
                                                 ELSE "relogin")
                     /\ pc' = "done"
                     /\ UNCHANGED <<depth, pool>>
           ELSE /\ result' = Raised(status, "status")
                /\ pc' = "done"
                /\ UNCHANGED <<depth, logins, pool>>
    /\ UNCHANGED <<poolVars, uploadVars, pollVars, refreshVars, persistVars,
                   attachVars, instVars>>
    /\ UNCHANGED <<impl, attempt, token_refresh_count, token, sleeps, loginOk,
                   thinking_enabled, search_info_mode, in_think_phase,
                   web_search_info, temp_content, fed, marks, out>>

(***************************************************************************)
(* RequestService._request_stream, consumed by stream_response_generator.  *)
(* The consumer pulls: each line the producer yields is handled by the     *)
(* consumer before the producer runs again, and after the consumer's       *)
(* `break` the producer is never resumed.                                  *)
(***************************************************************************)
\* faulty variant of output_think: the think output switched off
output_think_off == FALSE

\* stream_response_generator's `output_think = True`
output_think == TRUE

\* the producer's `except Exception` yields an error line and a `[DONE]`
\* line; the consumer finds no choices in the first and answers the second
\* with the sentinel
RS_ErrorLines == <<DONE>>

\* an HTTPException raised by the producer at depth 0 reaches the consumer's
\* `except Exception`; raised in a nested _request_stream it is caught by
\* the enclosing one's `except Exception`
RS_Raise(d) == IF d = 0 THEN <<ErrorChunk, DONE>> ELSE RS_ErrorLines

RS_Call ==
    /\ impl = "request_stream"
    /\ pc = "call"
    /\ \E status \in Responses :
        /\ status = 401 => depth < MaxDepth
        /\ calls' = Append(calls, [token |-> token, status |-> status])
        /\ IF status \in {TransportTimeout, TransportError}
           THEN /\ out' = out \o RS_Raise(depth)
                /\ pc' = "done"
                /\ UNCHANGED <<depth, logins, pool, token>>
           ELSE IF status = 401
           THEN LET r == re_login(pool, token) IN
                IF r = "success"
                THEN /\ logins' = logins + 1
                     /\ pool' = [pool EXCEPT ![1] = FreshToken(logins + 1)]
                     /\ token' = FreshToken(logins + 1)
                     /\ depth' = depth + 1
                     /\ UNCHANGED <<out, pc>>
                ELSE /\ logins' = IF r = "failed" THEN logins + 1 ELSE logins
                     /\ out' = out \o RS_ErrorLines
                     /\ pc' = "done"
                     /\ UNCHANGED <<depth, pool, token>>
           ELSE IF status # 200
           THEN /\ out' = out \o RS_ErrorLines
                /\ pc' = "done"
                /\ UNCHANGED <<depth, logins, pool, token>>
           ELSE /\ pc' = "stream"
                /\ UNCHANGED <<depth, logins, pool, token, out>>
    /\ temp_content' = FALSE
    /\ UNCHANGED <<poolVars, uploadVars, pollVars, refreshVars, persistVars,
                   attachVars, instVars>>
    /\ UNCHANGED <<impl, attempt, token_refresh_count, sleeps, loginOk, result,
                   thinking_enabled, search_info_mode, in_think_phase,
                   web_search_info, fed, marks>>

\* whether _request_stream yields the line to the consumer
RS_Yields(l, temp) ==
    /\ ~temp
    /\ l.t \in {"delta", "search", "nameonly", "finish"}

\* stream_response_generator: the content of the chunk built for a line
\* that has delta.content, given the buffer before the line
SRG_Content(l, w) ==
    IF l.t = "search" THEN l.content
    ELSE IF Truthy(w) /\ output_think
    THEN IF thinking_enabled /\ Contains(l.content, think_tag_start)
         THEN Replace(l.content, think_tag_start,
                      <<think_tag_start, Text("\n\n\n")>>
                      \o generate_markdown_table(w.items, search_info_mode)
                      \o <<Text("\n\n\n")>>)
         ELSE IF ~thinking_enabled
         THEN <<think_tag_start, Text("\n")>>
              \o generate_markdown_table(w.items, search_info_mode)
              \o <<Text("\n"), think_tag_end, Text("\n")>> \o l.content
         ELSE l.content
    ELSE l.content

\* faulty variant of SRG_Buffer: the buffer is not cleared once the table
\* was injected
SRG_Buffer_kept(l, w) == IF l.t = "search" THEN Some(l.info) ELSE w

\* the buffer after the line
SRG_Buffer(l, w) ==
    IF l.t = "search" THEN Some(l.info)
    ELSE IF Truthy(w) /\ output_think
            /\ ((thinking_enabled /\ Contains(l.content, think_tag_start))
                \/ ~thinking_enabled)
    THEN None
    ELSE w

\* faulty variant of SRG_Finish: the consumer leaves the loop at
\* finish_reason "stop" without yielding the sentinel
SRG_Finish_silent(w) == <<>>

\* the chunks the consumer emits at finish_reason "stop"
SRG_Finish(w) ==
    (IF ~output_think /\ Truthy(w)
     THEN <<Chunk("content",
                  <<Text("\n\n\n")>>
                  \o generate_markdown_table(w.items, search_info_mode))>>
     ELSE <<>>)
    \o <<DONE>>

\* one line of the backend response
RS_Line ==
    /\ impl = "request_stream"
    /\ pc = "stream"
    /\ Len(fed) < MaxLines
    /\ \E l \in RequestLines :
        /\ fed' = Append(fed, l)
        /\ temp_content' = (l.t = "nondata")
        /\ IF ~RS_Yields(l, temp_content)
           THEN UNCHANGED <<out, pc, web_search_info>>
           ELSE IF l.t = "finish"
           THEN /\ out' = out \o SRG_Finish(web_search_info)
                /\ pc' = "done"
                /\ UNCHANGED web_search_info
           ELSE IF l.t = "nameonly"
           THEN UNCHANGED <<out, pc, web_search_info>>
           ELSE IF l.t = "search" /\ ~l.extra
           THEN \* choice["delta"]["extra"] raises KeyError
                /\ out' = out \o <<ErrorChunk, DONE>>
                /\ pc' = "done"
                /\ UNCHANGED web_search_info
           ELSE /\ out' = Append(out, Chunk("content",
                                           SRG_Content(l, web_search_info)))
                /\ web_search_info' = SRG_Buffer(l, web_search_info)
                /\ UNCHANGED pc
        /\ marks' = Append(marks, Len(out'))
    /\ UNCHANGED <<poolVars, uploadVars, pollVars, refreshVars, persistVars,
                   attachVars, instVars>>
    /\ UNCHANGED <<impl, attempt, token_refresh_count, token, depth, calls,
                   sleeps, logins, loginOk, pool, result, thinking_enabled,
                   search_info_mode, in_think_phase>>

\* the response ends before a finish_reason "stop": the producer yields
\* `data: [DONE]`
RS_End ==
    /\ impl = "request_stream"
    /\ pc = "stream"
    /\ out' = Append(out, DONE)
    /\ pc' = "done"
    /\ UNCHANGED <<poolVars, uploadVars, pollVars, refreshVars, persistVars,
                   attachVars, instVars>>
    /\ UNCHANGED <<impl, attempt, token_refresh_count, token, depth, calls,
                   sleeps, logins, loginOk, pool, result, thinking_enabled,
                   search_info_mode, in_think_phase, web_search_info,
                   temp_content, fed, marks>>

\* httpx raises (timeout or request error) while the lines are read
RS_TransportError ==
    /\ impl = "request_stream"
    /\ pc = "stream"
    /\ out' = out \o RS_Raise(depth)
    /\ pc' = "done"
    /\ UNCHANGED <<poolVars, uploadVars, pollVars, refreshVars, persistVars,
                   attachVars, instVars>>
    /\ UNCHANGED <<impl, attempt, token_refresh_count, token, depth, calls,
                   sleeps, logins, loginOk, pool, result, thinking_enabled,
                   search_info_mode, in_think_phase, web_search_info,
                   temp_content, fed, marks>>

NextGateway ==
    \/ SC_Call
    \/ SC_Line
    \/ SC_End
    \/ SC_TransportError
    \/ PR_Call
    \/ RQ_Call
    \/ RS_Call
    \/ RS_Line
    \/ RS_End
    \/ RS_TransportError

SpecGateway == InitGateway /\ [][NextGateway]_vars

(***************************************************************************)
(* Properties of the gateway (checked under SpecGateway).                  *)
(***************************************************************************)
Streaming == impl \in {"stream_completion", "request_stream"}

Statuses == [i \in 1..Len(calls) |-> calls[i].status]

\* the positions of the sentinel in the output
Sentinels == {i \in 1..Len(out) : out[i] = DONE}

C2_RefreshOnceThenSuccess ==
    ( /\ impl \in {"post_with_retry", "request"}
      /\ pc = "done"
      /\ loginOk
      /\ get_account_by_token(pool, AuthToken)
      /\ Len(calls) >= 1
      /\ calls[1].status = 401
      /\ \A i \in 2..Len(calls) : calls[i].status = 200 )
    => /\ logins = 1
       /\ Len(calls) = 2
       /\ sleeps = <<>>
       /\ result = Returned(200)

\* C3: with 429 answered three times and then 200, execute (budget 5)
\* sleeps 1, 2 and 4 seconds in that order, one sleep after each 429, makes
\* exactly four backend calls and succeeds: _post_with_retry returns the 200
\* response, stream_completion goes on to read the stream.
C3_BackoffSchedule ==
    impl \in {"post_with_retry", "stream_completion"} =>
        /\ \A k \in 1..3 :
             (Len(calls) = k /\ \A i \in 1..k : calls[i].status = 429)
             => pc = "call" /\ sleeps = SubSeq(<<1, 2, 4>>, 1, k)
        /\ ( /\ Len(calls) >= 4
             /\ \A i \in 1..3 : calls[i].status = 429
             /\ calls[4].status = 200 )
           => /\ Len(calls) = 4
              /\ sleeps = <<1, 2, 4>>
              /\ impl = "post_with_retry"
                    => pc = "done" /\ result = Returned(200)
              /\ impl = "stream_completion"
                    => pc \in {"stream", "done"} /\ logins = 0

\* C3 witness: _post_with_retry returned after 429, 429, 429, 200.
C3_Witness ==
    /\ impl = "post_with_retry"
    /\ pc = "done"
    /\ Statuses = <<429, 429, 429, 200>>
    /\ result.kind = "ok"

\* the two-state reference machine of the translator: its transition, its
\* state after a sequence of frames, and the content it emits for a frame
RefStep(state, frame) ==
    IF frame.phase = "think" THEN "INSIDE_THINK"
    ELSE IF frame.phase = "answer" THEN "OUTSIDE_THINK"
    ELSE state

RECURSIVE RefState(_)
RefState(frames) ==
    IF frames = <<>> THEN "OUTSIDE_THINK"
    ELSE RefStep(RefState(SubSeq(frames, 1, Len(frames) - 1)),
                 frames[Len(frames)])

RefEmit(state, frame) ==
    IF frame.phase = "think" /\ state = "OUTSIDE_THINK"
    THEN <<think_tag_start>> \o frame.content
    ELSE IF frame.phase = "think" /\ state = "INSIDE_THINK"
    THEN frame.content
    ELSE IF frame.phase = "answer" /\ state = "INSIDE_THINK"
    THEN <<think_tag_end>> \o frame.content
    ELSE frame.content

ThinkAnswerOnly(frames) ==
    \A i \in 1..Len(frames) :
        frames[i].t = "delta" /\ frames[i].phase \in {"think", "answer"}

\* C6: for every sequence of think/answer frames, stream_completion emits
\* one chunk per frame, whose content is what the reference machine started
\* in OUTSIDE_THINK emits for that frame, and its in_think_phase is the
\* reference machine's state.
C6_RefinesReferenceMachine ==
    (impl = "stream_completion" /\ pc \in {"stream", "done"}
        /\ ThinkAnswerOnly(fed))
    => /\ Len(out) >= Len(fed)
       /\ \A i \in 1..Len(fed) :
            out[i] = Chunk("content",
                           RefEmit(RefState(SubSeq(fed, 1, i - 1)), fed[i]))
       /\ in_think_phase = (RefState(fed) = "INSIDE_THINK")

\* C6 witness: think, answer, think were translated (open, close, open).
C6_Witness ==
    /\ impl = "stream_completion"
    /\ Len(fed) = 3
    /\ ThinkAnswerOnly(fed)
    /\ fed[1].phase = "think" /\ fed[2].phase = "answer"
    /\ fed[3].phase = "think"
    /\ Len(out) >= 3
    /\ in_think_phase

AnswerOnly(frames) ==
    \A i \in 1..Len(frames) :
        frames[i].t = "delta" /\ frames[i].phase = "answer"

HasMarker(chunk) ==
    \E i \in 1..Len(chunk.content) : IsMarker(chunk.content[i])

\* C7: when the backend stream holds only answer-phase frames, no emitted
\* chunk contains a think-open or think-close marker (both translators).
C7_AnswerOnlyNoMarker ==
    (Streaming /\ AnswerOnly(fed))
    => \A i \in 1..Len(out) : ~HasMarker(out[i])

\* C7 witness: three answer frames were translated by stream_completion.
C7_Witness ==
    /\ impl = "stream_completion"
    /\ Len(fed) = 3
    /\ AnswerOnly(fed)
    /\ Len(out) >= 3
    /\ out[3].kind = "content"

\* line i of the response reached stream_response_generator: the producer
\* yields the line unless a non-data line was pending before it
Received(i) ==
    /\ i = 1 \/ fed[i - 1].t # "nondata"
    /\ fed[i].t \in {"delta", "search", "nameonly", "finish"}

\* a search frame the consumer buffers: it has delta.content and a
\* non-empty delta.extra.web_search_info
BufferedSearch(i) ==
    Received(i) /\ fed[i].t = "search" /\ fed[i].extra /\ fed[i].info # <<>>

\* the chunks emitted while line i was handled
ChunksOf(i) == ((IF i = 1 THEN 0 ELSE marks[i - 1]) + 1)..marks[i]

Tables(content) == {m \in 1..Len(content) : content[m].k = "table"}

Opens(content) == {m \in 1..Len(content) : content[m] = think_tag_start}

\* a think-block wrapping a table: open marker, table, close marker
HasThinkBlock(content) ==
    \E a, b, c \in 1..Len(content) :
        /\ a < b /\ b < c
        /\ content[a] = think_tag_start
        /\ content[b].k = "table"
        /\ content[c] = think_tag_end

\* the case of C9: thinking mode inactive, a search frame was buffered and
\* the next line is the terminal marker (finish_reason "stop")
C9_Case ==
    /\ impl = "request_stream"
    /\ ~thinking_enabled
    /\ pc = "done"
    /\ Len(fed) >= 2
    /\ BufferedSearch(Len(fed) - 1)
    /\ fed[Len(fed)].t = "finish"

C10_Case(i, j) ==
    /\ impl = "request_stream"
    /\ thinking_enabled
    /\ BufferedSearch(i)
    /\ Received(j) /\ fed[j].t = "delta"
    /\ Cardinality(Opens(fed[j].content)) = 1
    /\ \A k \in (i + 1)..(j - 1) :
         ~(Received(k) /\ (fed[k].t = "search"
                           \/ Opens(fed[k].content) # {}))

\* the next token after position m that is not white space
NextPrinted(content, m) ==
    LET later == {n \in (m + 1)..Len(content) : content[n].k # "text"
                                                \/ content[n].v \notin
                                                     {"\n", "\n\n\n"}}
    IN IF later = {} THEN 0
       ELSE CHOOSE n \in later : \A n2 \in later : n <= n2

Failed ==
    /\ pc = "done"
    /\ impl \in {"post_with_retry", "request"} => result.kind = "raised"

\* C12 (as claimed): one execute call performs at most one refresh, and
\* once a call made after a successful refresh answers 401, execute has
\* failed without another refresh and without another call, in single mode
\* and in stream mode, however many 401 answers follow one another.
C12_AtMostOneRefresh ==
    /\ logins <= 1
    /\ \A i \in 2..Len(calls) :
          (calls[i].status = 401 /\ loginOk
             /\ \E j \in 1..(i - 1) : calls[j].status = 401)
          => i = Len(calls) /\ Failed

\* every backend call so far was answered 429
AllRateLimited ==
    Len(calls) >= 1 /\ \A i \in 1..Len(calls) : calls[i].status = 429

\* what a failed execute hands to its caller carries the status and the
\* body of the backend response: the exception raised in single mode (an
\* HTTPStatusError holds the response, the Exception of _request has both
\* in its message), the error chunk before the sentinel in stream mode
CarriesStatusAndBody(status) ==
    IF impl \in {"post_with_retry", "request"}
    THEN result.kind = "raised" /\ result.status = status
    ELSE /\ Len(out) >= 2
         /\ out[Len(out) - 1].kind = "error"
         /\ Contains(out[Len(out) - 1].content, Text("response.status_code"))
         /\ Contains(out[Len(out) - 1].content, Text("response.text"))

\* C13 (as claimed): against a backend that always answers 429, execute
\* makes at most max_429_retry (5) backend calls, sleeps 2^attempt seconds
\* (1, 2, 4, ...) between consecutive calls and at no other time, is over
\* after the last call the budget allows, and then returns a failure that
\* carries the backend status and body.
C13_BoundedBackoffThenFailure ==
    AllRateLimited =>
        /\ Len(calls) <= max_429_retry
        /\ sleeps = [i \in 1..Len(sleeps) |-> Pow2(i - 1)]
        /\ Len(sleeps) = IF pc = "done" THEN Len(calls) - 1 ELSE Len(calls)
        /\ Len(calls) = max_429_retry => pc = "done"
        /\ pc = "done" => CarriesStatusAndBody(429)

\* C14 (as claimed): a backend call that follows a 401 (it is made only
\* after a successful refresh) carries the token the refresh obtained, not
\* the token the 401 rejected.
C14_RetryCarriesRefreshedToken ==
    \A i \in 1..(Len(calls) - 1) :
        calls[i].status = 401 =>
            /\ calls[i + 1].token # calls[i].token
            /\ \E n \in 1..logins : calls[i + 1].token = FreshToken(n)

\* C17 (as claimed): a backend call that times out is the last call of the
\* execute: nothing is slept after it (the sleeps are those of the 429
\* answers before it), and execute is over with a failure: the exception
\* in single mode, an error chunk and the sentinel in stream mode.
C17_TimeoutNotRetried ==
    \A i \in 1..Len(calls) :
        calls[i].status = TransportTimeout =>
            /\ i = Len(calls)
            /\ Len(sleeps) =
                  Cardinality({j \in 1..(i - 1) : calls[j].status = 429})
            /\ Failed
            /\ impl \in {"post_with_retry", "request"}
                  => result.status = TransportTimeout
            /\ Streaming => out = <<ErrorChunk, DONE>>

\* C18 (as claimed): a line whose payload is not JSON produces no chunk,
\* leaves the translator state as it was and does not end the stream, so
\* that the lines after it are translated as if it had not come.
C18_MalformedDropped ==
    [][(Streaming /\ Len(fed') = Len(fed) + 1
          /\ fed'[Len(fed')].t = "malformed")
       => /\ out' = out
          /\ pc' = pc
          /\ UNCHANGED <<in_think_phase, web_search_info>>]_vars

\* the transport raises in this step: the backend call of the step ends in
\* a transport failure, or the read of the response lines does
TransportRaises ==
    \/ SC_TransportError
    \/ RS_TransportError
    \/ /\ Len(calls') = Len(calls) + 1
       /\ calls'[Len(calls')].status \in {TransportTimeout, TransportError}

\* C19 (as claimed): when the transport raises, before or during the
\* stream, the translator emits one error chunk and then the sentinel, and
\* nothing once the run is over.
C19_ErrorChunkThenSentinel ==
    /\ [][(Streaming /\ TransportRaises)
          => out' = out \o <<ErrorChunk, DONE>> /\ pc' = "done"]_vars
    /\ [][pc = "done" => out' = out]_vars

\* C20 (as claimed): every chunk of a stream other than the sentinel is a
\* `data: <json>` line whose json has a string at choices[0].delta.content,
\* the chunks of the error paths and of the search frames included.
C20_WireFormat ==
    Streaming =>
        \A i \in 1..Len(out) :
            out[i] # DONE => out[i].kind \in {"content", "search"}

\* line i is a frame that carries a search-result payload and reached the
\* translator
SearchFrame(i) ==
    /\ fed[i].t = "search" /\ fed[i].extra /\ fed[i].info # <<>>
    /\ impl = "request_stream" => Received(i)

\* C28 (as claimed): the translator emits no chunk for a frame that carries
\* a search-result payload; the frame only fills the buffer.
C28_SearchFrameOnlyBuffers ==
    Streaming =>
        \A i \in 1..Len(fed) :
            SearchFrame(i) =>
                /\ ChunksOf(i) = {}
                /\ (impl = "request_stream" /\ i = Len(fed)) =>
                      web_search_info = Some(fed[i].info)

\* the case of C29 for lines i < j: thinking mode inactive, line i is a
\* buffered search frame and line j is the first frame with content that
\* the consumer receives after it
C29_Case(i, j) ==
    /\ impl = "request_stream"
    /\ ~thinking_enabled
    /\ BufferedSearch(i)
    /\ Received(j) /\ fed[j].t = "delta"
    /\ \A k \in (i + 1)..(j - 1) :
         ~(Received(k) /\ fed[k].t \in {"search", "delta"})

Closes(content) == {m \in 1..Len(content) : content[m] = think_tag_end}

\* C29: with thinking mode inactive, the first content frame after a
\* buffered search payload gets one chunk, which starts with a complete
\* think-block (think-open marker, the table of the payload, think-close
\* marker) followed by the content of the frame; the buffer is empty after
\* that chunk, and no other chunk carries a table until another search
\* frame is buffered.
C29_ThinkBlockOnceBeforeContent ==
    \A i, j \in 1..Len(fed) :
        (i < j /\ C29_Case(i, j)) =>
            /\ Cardinality(ChunksOf(j)) = 1
            /\ \A c \in ChunksOf(j) :
                 LET content == out[c].content
                     n == Len(content) - Len(fed[j].content)
                     block == SubSeq(content, 1, n)
                 IN
                 /\ n >= 3
                 /\ SubSeq(content, n + 1, Len(content)) = fed[j].content
                 /\ block[1] = think_tag_start
                 /\ Cardinality(Opens(block)) = 1
                 /\ Cardinality(Closes(block)) = 1
                 /\ Cardinality(Tables(block)) = 1
                 /\ NextPrinted(block, 1) \in Tables(block)
                 /\ \A m \in Tables(block) :
                      /\ block[m].rows =
                           [r \in 1..Len(fed[i].info) |-> <<r, fed[i].info[r]>>]
                      /\ NextPrinted(block, m) \in Closes(block)
                 /\ \A m \in Closes(block) : NextPrinted(block, m) = 0
            /\ j = Len(fed) => ~Truthy(web_search_info)
            /\ \A k \in (i..Len(fed)) \ {j} :
                 (\A k2 \in (j + 1)..k : ~BufferedSearch(k2))
                 => \A c \in ChunksOf(k) : Tables(out[c].content) = {}

\* C29 witness: a search frame, a content frame and another content frame
\* were translated with thinking mode inactive.
C29_Witness ==
    /\ Len(fed) = 3
    /\ C29_Case(1, 2)
    /\ Received(3) /\ fed[3].t = "delta"
    /\ Len(out) = 3
    /\ ~Truthy(web_search_info)

\* the backend answered the first k calls 429, 401, 429, 200 in that order
AnsweredSoFar(k) ==
    /\ Len(calls) >= k
    /\ \A i \in 1..k : calls[i].status = <<429, 401, 429, 200>>[i]

\* C30 (as claimed): the refresh budget and the rate-limit budget of
\* execute are independent.  A call answered 401 that is followed by a
\* refresh leaves attempt and the sleeps as they were, a call answered 429
\* leaves token_refresh_count and the logins as they were, and with the
\* login accepted the answers 429, 401, 429, 200 give a sleep of 1 second,
\* one refresh, a sleep of 2 seconds and then success after four calls.
C30_IndependentBudgets ==
    /\ [][(impl \in {"post_with_retry", "stream_completion"}
             /\ Len(calls') = Len(calls) + 1) =>
            /\ calls'[Len(calls')].status = 401 =>
                  attempt' = attempt /\ sleeps' = sleeps
            /\ calls'[Len(calls')].status = 429 =>
                  /\ token_refresh_count' = token_refresh_count
                  /\ logins' = logins /\ token' = token]_vars
    /\ []((impl \in {"post_with_retry", "stream_completion"}
             /\ loginOk /\ get_account_by_token(pool, AuthToken)) =>
            /\ (Len(calls) = 1 /\ AnsweredSoFar(1)) =>
                  /\ pc = "call" /\ sleeps = <<1>>
                  /\ token_refresh_count = 0
            /\ (Len(calls) = 2 /\ AnsweredSoFar(2)) =>
                  /\ pc = "call" /\ sleeps = <<1>>
                  /\ token_refresh_count = 1 /\ logins = 1 /\ attempt = 1
            /\ (Len(calls) = 3 /\ AnsweredSoFar(3)) =>
                  /\ pc = "call" /\ sleeps = <<1, 2>>
                  /\ token_refresh_count = 1 /\ logins = 1 /\ attempt = 2
            /\ AnsweredSoFar(4) =>
                  /\ Len(calls) = 4
                  /\ sleeps = <<1, 2>>
                  /\ logins = 1
                  /\ impl = "post_with_retry"
                        => pc = "done" /\ result = Returned(200)
                  /\ impl = "stream_completion"
                        => pc \in {"stream", "done"})

\* C34 (as claimed): when a call of _request or _request_stream is
\* answered 401, re_login logs in the credential whose token is the token
\* of the call wherever it sits in the pool, and answers 'account not
\* found' (no login is made) only when no credential has that token.
C34_ReloginFindsCredential ==
    [][(impl \in {"request", "request_stream"}
          /\ Len(calls') = Len(calls) + 1
          /\ calls'[Len(calls')].status = 401) =>
         (get_account_by_token(pool, calls'[Len(calls')].token)
             <=> logins' = logins + 1)]_vars

\* the chunks of the output of stream_completion that carry the think-open
\* marker, and those that carry the think-close marker (the translator
\* writes at most one marker into a chunk)
OpenChunks == {c \in 1..Len(out) : Contains(out[c].content, think_tag_start)}

CloseChunks == {c \in 1..Len(out) : Contains(out[c].content, think_tag_end)}

\* C38 (as claimed): in every completed output of stream_completion the
\* think markers are balanced: each think-open marker is followed by
\* exactly one think-close marker before the next think-open marker and
\* before the terminal sentinel, also when the response ends or the
\* transport fails while in_think_phase is set.
C38_ThinkMarkersBalanced ==
    (impl = "stream_completion" /\ pc = "done" /\ Len(out) > 0
       /\ out[Len(out)] = DONE) =>
        \A c \in OpenChunks :
            \E d \in CloseChunks :
                /\ c < d /\ d < Len(out)
                /\ \A e \in (c + 1)..(d - 1) :
                      e \notin OpenChunks \cup CloseChunks
                /\ \A e \in (d + 1)..Len(out) :
                      e \in CloseChunks =>
                          \E o \in OpenChunks : d < o /\ o < e

(***************************************************************************)
(* Credential pool: AccountManager (app/services/account.py).              *)
(*                                                                         *)
(* An account is [username, token, enabled].  The signin endpoint issues   *)
(* tokens of its own choosing; each user has two here, so that a login     *)
(* may or may not replace the stored token, and tokens of different users  *)
(* differ.                                                                 *)
(***************************************************************************)
Usernames == 1..MaxAccounts

IssuedTokens(u) == {10 + u}

Account(u, t, e) == [username |-> u, token |-> t, enabled |-> e]

\* accounts.yml as load_accounts finds it: any list of accounts of distinct
\* users
AccountFiles ==
    UNION {{[i \in 1..n |-> Account(us[i], 10 + us[i], en[i])] :
               us \in {f \in [1..n -> Usernames] :
                          \A i, j \in 1..n : i # j => f[i] # f[j]},
               en \in [1..n -> BOOLEAN]} : n \in 0..MaxAccounts}

\* AccountManager.__init__
InitPool ==
    /\ accounts \in AccountFiles
    /\ current_index = 0
    /\ request_number = 0
    /\ error_account_tokens = <<>>
    /\ acquired = NoToken
    /\ handed = <<>>
    /\ GatewayIdle
    /\ UploadIdle
    /\ PollIdle
    /\ RefreshIdle
    /\ PersistIdle
    /\ AttachIdle
    /\ InstIdle

\* faulty variant of enabled_accounts: the enabled flag is not looked at
enabled_accounts_all(list) == list

\* [account for account in self.accounts if account.get('enabled', True)]
enabled_accounts(list) == SelectSeq(list, LAMBDA a : a.enabled)

\* for account in self.accounts: if account.get('username') == username:
\* position of the first account of that username, 0 if there is none
first_of_username(list, u) ==
    IF \E i \in 1..Len(list) : list[i].username = u
    THEN CHOOSE i \in 1..Len(list) :
             list[i].username = u /\ \A j \in 1..(i - 1) : list[j].username # u
    ELSE 0

\* the history of tokens handed out restarts when the list changes
Since(list) == IF list = accounts THEN handed ELSE <<>>

\* get_account_token: the cursor goes back to the start once it has run
\* past the enabled accounts
wrap_to_start(index, n) == 0

wrap(index, n) == IF index >= n THEN 0 ELSE index

get_account_token ==
    /\ request_number < MaxRequests
    /\ LET enabled == enabled_accounts(accounts) IN
       IF enabled = <<>>
       THEN /\ acquired' = "ValueError"
            /\ UNCHANGED <<current_index, request_number, handed>>
       ELSE LET index == wrap(current_index, Len(enabled)) IN
            /\ acquired' = "token"
            /\ current_index' = index + 1
            /\ request_number' = request_number + 1
            /\ handed' = Append(handed, enabled[index + 1].token)
    /\ UNCHANGED <<accounts, error_account_tokens>>
    /\ UNCHANGED <<gatewayVars, uploadVars, pollVars, refreshVars, persistVars,
                   attachVars, instVars>>

\* add_account: an account without a token, or with a token the list
\* already holds, is refused
add_account ==
    /\ \E u \in Usernames : \E t \in {0} \cup IssuedTokens(u), e \in BOOLEAN :
          /\ \A i \in 1..Len(accounts) : accounts[i].username # u
          /\ accounts' =
                IF t = 0 \/ \E i \in 1..Len(accounts) : accounts[i].token = t
                THEN accounts
                ELSE Append(accounts, Account(u, t, e))
    /\ handed' = Since(accounts')
    /\ UNCHANGED <<current_index, request_number, error_account_tokens,
                   acquired>>
    /\ UNCHANGED <<gatewayVars, uploadVars, pollVars, refreshVars, persistVars,
                   attachVars, instVars>>

delete_account ==
    /\ \E u \in Usernames : \E t \in IssuedTokens(u) :
          accounts' = SelectSeq(accounts, LAMBDA a : a.token # t)
    /\ handed' = Since(accounts')
    /\ UNCHANGED <<current_index, request_number, error_account_tokens,
                   acquired>>
    /\ UNCHANGED <<gatewayVars, uploadVars, pollVars, refreshVars, persistVars,
                   attachVars, instVars>>

\* logout: the first account of that username is disabled
logout ==
    /\ \E u \in Usernames :
          LET i == first_of_username(accounts, u) IN
          accounts' = IF i = 0 THEN accounts
                      ELSE [accounts EXCEPT ![i].enabled = FALSE]
    /\ handed' = Since(accounts')
    /\ UNCHANGED <<current_index, request_number, error_account_tokens,
                   acquired>>
    /\ UNCHANGED <<gatewayVars, uploadVars, pollVars, refreshVars, persistVars,
                   attachVars, instVars>>

\* login_with_credentials: on a 200 the first account of that username gets
\* the issued token and is enabled, or a new account is appended; any other
\* answer changes nothing
login_with_credentials ==
    /\ \E u \in Usernames : \E t \in {0} \cup IssuedTokens(u) :
          LET i == first_of_username(accounts, u) IN
          accounts' =
             IF t = 0 THEN accounts
             ELSE IF i # 0
                  THEN [accounts EXCEPT ![i] = Account(u, t, TRUE)]
                  ELSE Append(accounts, Account(u, t, TRUE))
    /\ handed' = Since(accounts')
    /\ UNCHANGED <<current_index, request_number, error_account_tokens,
                   acquired>>
    /\ UNCHANGED <<gatewayVars, uploadVars, pollVars, refreshVars, persistVars,
                   attachVars, instVars>>

\* check_account_token answers for the tokens of the list: the sets of
\* tokens found valid (all of them, or all but one)
Verdicts(tokens) == {tokens} \cup {tokens \ {t} : t \in tokens}

\* check_all_account_tokens: every account whose token the backend rejects
\* is disabled and its token listed
check_all_account_tokens ==
    /\ \E valid \in Verdicts({accounts[i].token : i \in 1..Len(accounts)}) :
          /\ accounts' = [i \in 1..Len(accounts) |->
                            IF accounts[i].token \in valid THEN accounts[i]
                            ELSE [accounts[i] EXCEPT !.enabled = FALSE]]
          /\ error_account_tokens' =
                LET bad == SelectSeq(accounts, LAMBDA a : a.token \notin valid)
                IN [i \in 1..Len(bad) |-> bad[i].token]
    /\ handed' = Since(accounts')
    /\ UNCHANGED <<current_index, request_number, acquired>>
    /\ UNCHANGED <<gatewayVars, uploadVars, pollVars, refreshVars, persistVars,
                   attachVars, instVars>>

NextPool ==
    \/ get_account_token
    \/ add_account
    \/ delete_account
    \/ logout
    \/ login_with_credentials
    \/ check_all_account_tokens

SpecPool == InitPool /\ [][NextPool]_vars

\* the tokens of the enabled accounts, in list order
EnabledTokens ==
    LET enabled == enabled_accounts(accounts)
    IN  [i \in 1..Len(enabled) |-> enabled[i].token]

\* position of a token in a list of distinct tokens
PositionIn(tokens, t) == CHOOSE i \in 1..Len(tokens) : tokens[i] = t

\* C4 as stated: with k enabled credentials and no change of the pool in
\* between, the first k get_account_token calls return the enabled
\* credentials in insertion order and the (k+1)-th returns the first
\* credential of the list again.
C4_InsertionOrder ==
    LET k == Len(EnabledTokens) IN
    k >= 1 =>
        /\ Len(handed) >= k => SubSeq(handed, 1, k) = EnabledTokens
        /\ Len(handed) >= k + 1 => handed[k + 1] = EnabledTokens[1]

\* C4, amended: with k enabled credentials and no change of the pool in
\* between, consecutive get_account_token calls walk the enabled
\* credentials in cyclic insertion order from wherever the cursor stands:
\* each call returns the credential after the one returned before (the
\* first after the last), any k consecutive calls return k distinct
\* credentials, and the call k after a call returns the same credential.
C4_CyclicOrder ==
    LET k == Len(EnabledTokens) IN
    k >= 1 =>
        /\ \A i \in 1..Len(handed) :
              \E j \in 1..k : EnabledTokens[j] = handed[i]
        /\ \A i \in 1..(Len(handed) - 1) :
              handed[i + 1] =
                 EnabledTokens[(PositionIn(EnabledTokens, handed[i]) % k) + 1]
        /\ \A i, j \in 1..Len(handed) :
              (i < j /\ j - i < k) => handed[i] # handed[j]
        /\ \A i \in 1..(Len(handed) - k) : handed[i + k] = handed[i]

\* k + 1 calls on a pool of k >= 2 enabled credentials whose cursor stood
\* past the first credential
C4_Witness ==
    LET k == Len(EnabledTokens) IN
    /\ k >= 2
    /\ Len(handed) = k + 1
    /\ handed[1] # EnabledTokens[1]

\* no account of the list is enabled (the list may be empty)
NoneEnabled == \A i \in 1..Len(accounts) : ~accounts[i].enabled

\* C11: when no account of the pool is enabled, get_account_token is never
\* held back (the call is one step, it waits for nothing), and the call
\* raises ValueError and leaves the cursor, the request counter and the
\* accounts list as they were.
C11_FailFast ==
    /\ [](NoneEnabled /\ request_number < MaxRequests
             => ENABLED get_account_token)
    /\ [][(get_account_token /\ NoneEnabled) =>
              /\ acquired' = "ValueError"
              /\ UNCHANGED <<accounts, current_index, request_number,
                             error_account_tokens, handed>>]_vars

\* tokens were handed out, every account was then disabled, and a call on
\* the pool that still holds accounts raised ValueError
C11_Witness ==
    /\ acquired = "ValueError"
    /\ accounts # <<>>
    /\ NoneEnabled
    /\ current_index >= 2
    /\ request_number >= 2

\* get_account_info: the account at current_index - 1 of the enabled
\* accounts (at the last position while current_index is 0); {} when no
\* account is enabled, IndexError when the position is past the list
get_account_info(list, index) ==
    LET enabled == enabled_accounts(list)
        at == IF index > 0 THEN index - 1 ELSE Len(enabled) - 1
    IN  IF enabled = <<>> THEN [raised |-> FALSE, found |-> <<>>]
        ELSE IF at + 1 > Len(enabled) THEN [raised |-> TRUE, found |-> <<>>]
        ELSE [raised |-> FALSE, found |-> <<enabled[at + 1]>>]

\* get_account_info finds an enabled account whenever there is one
InfoInRange ==
    LET info == get_account_info(accounts, current_index) IN
    /\ ~info.raised
    /\ enabled_accounts(accounts) # <<>> =>
          /\ Len(info.found) = 1
          /\ info.found[1].enabled

\* get_account_info right after a get_account_token that handed a token
\* out finds the account of that token
InfoAfterAcquire ==
    (get_account_token /\ acquired' = "token") =>
        LET info == get_account_info(accounts', current_index') IN
        /\ ~info.raised
        /\ Len(info.found) = 1
        /\ info.found[1].token = handed'[Len(handed')]

\* C40 (as claimed): after any sequence of get_account_token, login,
\* logout and token checks, get_account_info does not index outside the
\* enabled accounts: with at least one account enabled it returns an
\* enabled account, and right after get_account_token it returns the
\* account whose token was handed out.
C40_InfoFollowsCursor == []InfoInRange /\ [][InfoAfterAcquire]_vars

(***************************************************************************)
(* Refresh: execute calls that run concurrently on the accounts of one     *)
(* AccountManager (app/services/account.py re_login and                    *)
(* login_with_credentials, called by RequestService._request_stream on a   *)
(* 401).  All coroutines run on one event loop; a login suspends once,     *)
(* while it awaits the answer of the signin endpoint, and the accounts     *)
(* list is updated when the answer is back.                                *)
(***************************************************************************)
Workers == 1..MaxWorkers

\* the tokens the signin endpoint may issue to a user
SigninTokens(u) == {20 + u, 30 + u}

\* accounts.yml of at most two accounts
InitRefresh ==
    /\ accounts \in {list \in AccountFiles :
                        /\ Len(list) <= 2
                        /\ \A i \in 1..Len(list) : list[i].username <= 2}
    /\ current_index = 0
    /\ request_number = 0
    /\ error_account_tokens = <<>>
    /\ acquired = NoToken
    /\ handed = <<>>
    /\ wpc = [w \in Workers |-> "idle"]
    /\ wtoken = [w \in Workers |-> 0]
    /\ wuser = [w \in Workers |-> 0]
    /\ signins = 0
    /\ failed_refresh = {}
    /\ after_failure = {}
    /\ logged_out = {}
    /\ GatewayIdle
    /\ UploadIdle
    /\ PollIdle
    /\ PersistIdle
    /\ AttachIdle
    /\ InstIdle

\* the endpoint takes a token for the call: get_account_token; ValueError
\* ends the call
RF_Acquire ==
    /\ \E w \in Workers :
          /\ wpc[w] = "idle"
          /\ LET enabled == enabled_accounts(accounts) IN
             IF enabled = <<>>
             THEN /\ wpc' = [wpc EXCEPT ![w] = "done"]
                  /\ UNCHANGED <<wtoken, current_index, request_number,
                                 after_failure>>
             ELSE LET index == wrap(current_index, Len(enabled)) IN
                  /\ wpc' = [wpc EXCEPT ![w] = "call"]
                  /\ wtoken' = [wtoken EXCEPT ![w] = enabled[index + 1].token]
                  /\ current_index' = index + 1
                  /\ request_number' = request_number + 1
                  /\ after_failure' =
                        IF enabled[index + 1].username \in failed_refresh
                        THEN after_failure \cup {"acquired"}
                        ELSE after_failure
    /\ UNCHANGED <<accounts, error_account_tokens, acquired, handed, wuser,
                   signins, failed_refresh, logged_out>>
    /\ UNCHANGED <<gatewayVars, uploadVars, pollVars, persistVars, attachVars,
                   instVars>>

\* the backend answers the call.  On a 401 re_login compares the token with
\* the first account of the list only; when it matches,
\* login_with_credentials posts to the signin endpoint and suspends.
RF_Call ==
    /\ \E w \in Workers, status \in {200, 401} :
          /\ wpc[w] = "call"
          /\ status = 401 => signins < MaxSignins
          /\ IF status = 401 /\ accounts # <<>>
                /\ accounts[1].token = wtoken[w]
             THEN /\ wpc' = [wpc EXCEPT ![w] = "login"]
                  /\ wuser' = [wuser EXCEPT ![w] = accounts[1].username]
                  /\ signins' = signins + 1
                  /\ after_failure' =
                        IF accounts[1].username \in failed_refresh
                        THEN after_failure \cup {"login"}
                        ELSE after_failure
             ELSE \* a 200, or re_login finds no account: the call is over
                  /\ wpc' = [wpc EXCEPT ![w] = "done"]
                  /\ UNCHANGED <<wuser, signins, after_failure>>
    /\ UNCHANGED <<wtoken, failed_refresh, logged_out>>
    /\ UNCHANGED <<poolVars, gatewayVars, uploadVars, pollVars, persistVars,
                   attachVars, instVars>>

\* the signin endpoint answers.  On a 200 the first account of that
\* username gets the issued token and is enabled (a new account is appended
\* when there is none), and the call is retried with the new token; on any
\* other answer the list is left as it is and the call fails.
RF_LoginReturns ==
    /\ \E w \in Workers, ok \in BOOLEAN :
          /\ wpc[w] = "login"
          /\ LET u == wuser[w]
                 i == first_of_username(accounts, u)
             IN  IF ok
                 THEN \E t \in SigninTokens(u) :
                         /\ accounts' =
                               IF i # 0
                               THEN [accounts EXCEPT ![i] = Account(u, t, TRUE)]
                               ELSE Append(accounts, Account(u, t, TRUE))
                         /\ wtoken' = [wtoken EXCEPT ![w] = t]
                         /\ wpc' = [wpc EXCEPT ![w] = "call"]
                         /\ failed_refresh' = failed_refresh \ {u}
                 ELSE /\ wpc' = [wpc EXCEPT ![w] = "done"]
                      /\ failed_refresh' = failed_refresh \cup {u}
                      /\ UNCHANGED <<accounts, wtoken>>
          /\ wuser' = [wuser EXCEPT ![w] = 0]
    /\ UNCHANGED <<current_index, request_number, error_account_tokens,
                   acquired, handed, signins, after_failure, logged_out>>
    /\ UNCHANGED <<gatewayVars, uploadVars, pollVars, persistVars, attachVars,
                   instVars>>

\* the admin endpoint logs a user out while calls are under way: logout
\* disables the first account of that username; a username the list does
\* not hold changes nothing
RF_Logout ==
    /\ \E u \in Usernames :
          LET i == first_of_username(accounts, u) IN
          /\ i # 0
          /\ u \notin logged_out
          /\ accounts' = [accounts EXCEPT ![i].enabled = FALSE]
          /\ logged_out' = logged_out \cup {u}
    /\ UNCHANGED <<current_index, request_number, error_account_tokens,
                   acquired, handed>>
    /\ UNCHANGED <<wpc, wtoken, wuser, signins, failed_refresh,
                   after_failure>>
    /\ UNCHANGED <<gatewayVars, uploadVars, pollVars, persistVars, attachVars,
                   instVars>>

NextRefresh ==
    \/ RF_Acquire
    \/ RF_Call
    \/ RF_LoginReturns
    \/ RF_Logout

SpecRefresh == InitRefresh /\ [][NextRefresh]_vars

\* C15 (as claimed): once the login of a refresh was refused, the account
\* of that username is disabled, so that (until a login for it succeeds)
\* get_account_token does not hand its token out and no 401 starts another
\* login for it.
C15_FailedRefreshDisables ==
    /\ \A u \in failed_refresh :
          \A i \in 1..Len(accounts) :
              accounts[i].username = u => ~accounts[i].enabled
    /\ after_failure = {}

\* C16 (as claimed): whatever the interleaving of the execute calls, no two
\* logins for the same username are awaiting the signin endpoint at the
\* same time.
C16_OneLoginInFlight ==
    \A w1, w2 \in Workers :
        (w1 # w2 /\ wpc[w1] = "login" /\ wpc[w2] = "login")
        => wuser[w1] # wuser[w2]

\* C36 (as claimed): an account disabled through logout stays disabled
\* whatever calls are in flight: the login that the 401 of a call starts
\* never enables the account of a logged-out username again (the admin
\* login, the one operation said to enable it, is no step of SpecRefresh).
C36_LogoutStaysDisabled ==
    \A u \in logged_out :
        LET i == first_of_username(accounts, u) IN
        i # 0 => ~accounts[i].enabled

(***************************************************************************)
(* Persistence of the accounts list: AccountManager.save_accounts and      *)
(* load_accounts (app/services/account.py).  Every mutation changes        *)
(* self.accounts and then calls save_accounts, which opens accounts.yml    *)
(* for writing (the file is empty from then on), dumps the list and        *)
(* swallows whatever exception the two raise.  The process may stop at     *)
(* any point; the next process loads the file.                             *)
(***************************************************************************)
PoolFile(state, list) == [state |-> state, list |-> list]

\* load_accounts: the list of the file; [] when the file is absent, holds
\* nothing (yaml.safe_load gives None) or cannot be read
load_accounts(file) == IF file.state = "ok" THEN file.list ELSE <<>>

\* the lists the model starts from: at most two accounts, of users 1 and 2
SmallAccountFiles ==
    {list \in AccountFiles :
        /\ Len(list) <= 2
        /\ \A i \in 1..Len(list) : list[i].username <= 2}

\* a process starts on the file a previous one left
InitPersist ==
    /\ accounts_file \in
          {PoolFile("absent", <<>>)}
          \cup {PoolFile("ok", list) : list \in SmallAccountFiles}
    /\ accounts = load_accounts(accounts_file)
    /\ committed = accounts
    /\ persist_pc = "idle"
    /\ crashes = 0
    /\ current_index = 0
    /\ request_number = 0
    /\ error_account_tokens = <<>>
    /\ acquired = NoToken
    /\ handed = <<>>
    /\ GatewayIdle
    /\ UploadIdle
    /\ PollIdle
    /\ RefreshIdle
    /\ AttachIdle
    /\ InstIdle

\* the list after one mutation that goes on to save_accounts: add_account,
\* delete_account, logout, a login the signin endpoint accepts, and
\* check_all_account_tokens (which saves whether or not it disabled an
\* account)
Mutations(list) ==
    {Append(list, Account(u, 10 + u, e)) : u \in {1, 2}, e \in BOOLEAN}
    \cup {SelectSeq(list, LAMBDA a : a.token # list[i].token) :
             i \in 1..Len(list)}
    \cup {[list EXCEPT ![i].enabled = FALSE] :
             i \in {j \in 1..Len(list) :
                       j = first_of_username(list, list[j].username)}}
    \cup {[list EXCEPT ![i] = Account(list[i].username,
                                      20 + list[i].username, TRUE)] :
             i \in {j \in 1..Len(list) :
                       j = first_of_username(list, list[j].username)}}
    \cup {[i \in 1..Len(list) |->
              IF list[i].token \in valid THEN list[i]
              ELSE [list[i] EXCEPT !.enabled = FALSE]] :
             valid \in Verdicts({list[i].token : i \in 1..Len(list)})}

\* a mutation changes self.accounts and reaches its save_accounts call
Persist_Mutate ==
    /\ persist_pc \in {"idle", "reloaded"}
    /\ \E next \in Mutations(accounts) :
          /\ Len(next) <= 2
          /\ \A i, j \in 1..Len(next) :
                i # j => /\ next[i].username # next[j].username
                         /\ next[i].token # next[j].token
          /\ accounts' = next
    /\ persist_pc' = "mutated"
    /\ UNCHANGED <<accounts_file, committed, crashes>>
    /\ UNCHANGED <<current_index, request_number, error_account_tokens,
                   acquired, handed>>
    /\ UNCHANGED <<gatewayVars, uploadVars, pollVars, refreshVars, attachVars,
                   instVars>>

\* save_accounts: open(self.accounts_file, 'w') empties the file, or raises;
\* the exception is logged and the mutation returns
Persist_Open ==
    /\ persist_pc = "mutated"
    /\ \E ok \in BOOLEAN :
          IF ok
          THEN /\ accounts_file' = PoolFile("empty", <<>>)
               /\ persist_pc' = "opened"
               /\ UNCHANGED committed
          ELSE /\ persist_pc' = "idle"
               /\ committed' = accounts
               /\ UNCHANGED accounts_file
    /\ UNCHANGED crashes
    /\ UNCHANGED <<poolVars, gatewayVars, uploadVars, pollVars, refreshVars,
                   attachVars, instVars>>

\* save_accounts: yaml.safe_dump writes the list and the file is closed, or
\* raises; either way the mutation returns
Persist_Dump ==
    /\ persist_pc = "opened"
    /\ \E ok \in BOOLEAN :
          accounts_file' = IF ok THEN PoolFile("ok", accounts)
                           ELSE accounts_file
    /\ persist_pc' = "idle"
    /\ committed' = accounts
    /\ UNCHANGED crashes
    /\ UNCHANGED <<poolVars, gatewayVars, uploadVars, pollVars, refreshVars,
                   attachVars, instVars>>

\* the process stops, wherever it stands; the next one runs
\* AccountManager.__init__
Persist_Crash ==
    /\ crashes < MaxCrashes
    /\ crashes' = crashes + 1
    /\ accounts' = load_accounts(accounts_file)
    /\ persist_pc' = "reloaded"
    /\ UNCHANGED <<accounts_file, committed>>
    /\ current_index' = 0
    /\ request_number' = 0
    /\ error_account_tokens' = <<>>
    /\ UNCHANGED <<acquired, handed>>
    /\ UNCHANGED <<gatewayVars, uploadVars, pollVars, refreshVars, attachVars,
                   instVars>>

NextPersist ==
    \/ Persist_Mutate
    \/ Persist_Open
    \/ Persist_Dump
    \/ Persist_Crash

SpecPersist == InitPersist /\ [][NextPersist]_vars

\* C21 (as claimed): when a mutation has returned, the file holds the list
\* as the mutation left it, and the list a process loads after a crash is
\* the list the last mutation that returned had produced.
C21_CrashKeepsCommitted ==
    /\ persist_pc = "idle" => load_accounts(accounts_file) = accounts
    /\ persist_pc = "reloaded" => accounts = committed

\* C33 (as claimed): a write of accounts.yml is atomic: at every point,
\* and so at every point the process may stop at, the file holds complete
\* contents (those before the write or those after it), never an empty or
\* partial file.
C33_WriteIsAtomic == accounts_file.state \in {"absent", "ok"}

(***************************************************************************)
(* Upload service: UploadService.save_url and the cache lifecycle          *)
(* (app/service/upload_service.py).                                        *)
(*                                                                         *)
(* The coroutines run on one event loop, so a step of the model is the     *)
(* code between two suspension points: a save_url call suspends while it   *)
(* fetches the image and while it uploads, the load task while it reads    *)
(* the file, a write task while it opens and while it writes the file.     *)
(* Awaiting _check_or_set_upload_cache does not suspend.  A call record    *)
(* is [pc, x, url, alone, kept, uploaded]: where the call stands, what     *)
(* its input stands for, the URL it returned, whether no other call was    *)
(* in flight when it started, whether the cache mapped its bytes to that   *)
(* URL when it returned, and whether it started an upload.                 *)
(***************************************************************************)
\* hashlib.sha256(image_bytes).hexdigest(): one digest per payload, no two
\* payloads of the model share one
file_sha256(image_bytes) == image_bytes

\* URLs: the two kinds of input URL that contain the vendor host, a URL a
\* previous process left in the cache file, and the file_url the backend
\* gives the upload of call c (a new one for each upload)
VendorUrl == 1

LookalikeUrl == 2

OldUrl == 10

UploadedUrl(c) == 100 + c

\* what data/upload.json holds when the process starts
DiskFiles ==
    {NoFile, EmptyFile, JsonFile(EmptyCache),
     JsonFile([b \in Blobs |-> IF b = "x" THEN OldUrl ELSE NoUrl])}

\* UploadService.__init__
InitUpload ==
    /\ upload_cache = EmptyCache
    /\ cache_loaded = FALSE
    /\ load_cache_launched = FALSE
    /\ load_tasks = 0
    /\ load_runs = 0
    /\ loading = FALSE
    /\ save_tasks = 0
    /\ writing = FALSE
    /\ disk \in DiskFiles
    /\ saves = [c \in 1..MaxSaves |-> IdleSave]
    /\ GatewayIdle
    /\ PoolIdle
    /\ PollIdle
    /\ RefreshIdle
    /\ PersistIdle
    /\ AttachIdle
    /\ InstIdle

\* _check_or_set_upload_cache creates the load task when the cache is
\* neither loaded nor being loaded
fires_load == ~cache_loaded /\ ~load_cache_launched

\* _check_or_set_upload_cache(image_bytes): the cached URL, None while the
\* cache is not loaded
cache_lookup_miss(image_bytes) == NoUrl

cache_lookup(image_bytes) ==
    IF ~cache_loaded THEN NoUrl ELSE upload_cache[file_sha256(image_bytes)]

\* faulty variant of cache_stores: the mapping is stored whether or not the
\* digest has one
cache_stores_always(image_bytes) == cache_loaded

\* _check_or_set_upload_cache(image_bytes, url): the mapping is stored when
\* the cache is loaded and has no entry for the digest
cache_stores(image_bytes) ==
    cache_loaded /\ upload_cache[file_sha256(image_bytes)] = NoUrl

\* save_url from the duplicate check on, once the bytes are at hand
Materialized(c, call) ==
    /\ load_tasks' = IF fires_load THEN load_tasks + 1 ELSE load_tasks
    /\ saves' = [saves EXCEPT ![c] =
                    IF cache_lookup(call.x) # NoUrl
                    THEN [call EXCEPT !.pc = "done",
                                      !.url = cache_lookup(call.x),
                                      !.kept = TRUE]
                    ELSE [call EXCEPT !.pc = "upload", !.uploaded = 1]]

\* a save_url call (with a token and a URL) starts and runs to its first
\* suspension point: a URL that contains 'cdn.qwen.ai' is returned as it
\* is, a data: URL is decoded, any other URL is downloaded.  Calls are
\* numbered in the order they start.
Save_Start ==
    /\ \E c \in 1..MaxSaves, x \in Sources, data_url \in BOOLEAN :
          /\ saves[c].pc = "idle"
          /\ c > 1 => saves[c - 1].pc # "idle"
          /\ x \notin Blobs => data_url = FALSE
          /\ LET call == [IdleSave EXCEPT
                             !.x = x,
                             !.alone = \A d \in 1..MaxSaves :
                                          saves[d].pc \in {"idle", "done"}]
             IN  CASE x = "vendor" ->
                        /\ saves' = [saves EXCEPT ![c] =
                                        [call EXCEPT !.pc = "done",
                                                     !.url = VendorUrl]]
                        /\ UNCHANGED load_tasks
                   [] x = "lookalike" ->
                        /\ saves' = [saves EXCEPT ![c] =
                                        [call EXCEPT !.pc = "done",
                                                     !.url = LookalikeUrl]]
                        /\ UNCHANGED load_tasks
                   [] x \in Blobs /\ ~data_url ->
                        /\ saves' = [saves EXCEPT ![c] =
                                        [call EXCEPT !.pc = "fetch"]]
                        /\ UNCHANGED load_tasks
                   [] x \in Blobs /\ data_url -> Materialized(c, call)
    /\ UNCHANGED <<upload_cache, cache_loaded, load_cache_launched, loading,
                   load_runs, save_tasks, writing, disk>>
    /\ UNCHANGED <<gatewayVars, poolVars, pollVars, refreshVars, persistVars,
                   attachVars, instVars>>

\* the download answers: 200 with the bytes, or anything else
Save_Fetched ==
    /\ \E c \in 1..MaxSaves, ok \in BOOLEAN :
          /\ saves[c].pc = "fetch"
          /\ IF ok THEN Materialized(c, saves[c])
             ELSE /\ saves' = [saves EXCEPT ![c].pc = "done"]
                  /\ UNCHANGED load_tasks
    /\ UNCHANGED <<upload_cache, cache_loaded, load_cache_launched, loading,
                   load_runs, save_tasks, writing, disk>>
    /\ UNCHANGED <<gatewayVars, poolVars, pollVars, refreshVars, persistVars,
                   attachVars, instVars>>

\* _upload_to_oss returns: the file_url, or None
Save_Uploaded ==
    /\ \E c \in 1..MaxSaves, ok \in BOOLEAN :
          /\ saves[c].pc = "upload"
          /\ IF ok
             THEN /\ load_tasks' = IF fires_load THEN load_tasks + 1
                                   ELSE load_tasks
                  /\ IF cache_stores(saves[c].x)
                     THEN /\ upload_cache' =
                               [upload_cache EXCEPT
                                   ![file_sha256(saves[c].x)] = UploadedUrl(c)]
                          /\ save_tasks' = save_tasks + 1
                     ELSE UNCHANGED <<upload_cache, save_tasks>>
                  /\ saves' = [saves EXCEPT
                                  ![c].pc = "done",
                                  ![c].url = UploadedUrl(c),
                                  ![c].kept = cache_stores(saves[c].x)]
             ELSE /\ saves' = [saves EXCEPT ![c].pc = "done"]
                  /\ UNCHANGED <<load_tasks, upload_cache, save_tasks>>
    /\ UNCHANGED <<cache_loaded, load_cache_launched, loading, load_runs,
                   writing, disk>>
    /\ UNCHANGED <<gatewayVars, poolVars, pollVars, refreshVars, persistVars,
                   attachVars, instVars>>

\* faulty variant of load_returns_at_once: only a finished load is seen
load_returns_at_once_finished == cache_loaded

\* _background_load_cache: `if self.cache_loaded or
\* self._load_cache_launched: return`
load_returns_at_once == cache_loaded \/ load_cache_launched

\* _background_load_cache starts: it returns at once when a load has run or
\* is running; with no file there is nothing to wait for
Load_Run ==
    /\ load_tasks > 0
    /\ load_tasks' = load_tasks - 1
    /\ IF load_returns_at_once
       THEN UNCHANGED <<load_cache_launched, loading, upload_cache,
                        cache_loaded, load_runs>>
       ELSE /\ load_cache_launched' = TRUE
            /\ load_runs' = load_runs + 1
            /\ IF disk.state = "absent"
               THEN /\ upload_cache' = EmptyCache
                    /\ cache_loaded' = TRUE
                    /\ UNCHANGED loading
               ELSE /\ loading' = TRUE
                    /\ UNCHANGED <<upload_cache, cache_loaded>>
    /\ UNCHANGED <<save_tasks, writing, disk, saves>>
    /\ UNCHANGED <<gatewayVars, poolVars, pollVars, refreshVars, persistVars,
                   attachVars, instVars>>

\* the read returns (or raises): the cache becomes the file's map
Load_Finish ==
    /\ loading
    /\ \E ok \in BOOLEAN :
          upload_cache' = IF ok /\ disk.state = "ok" THEN disk.map
                          ELSE EmptyCache
    /\ cache_loaded' = TRUE
    /\ loading' = FALSE
    /\ UNCHANGED <<load_cache_launched, load_tasks, load_runs, save_tasks,
                   writing, disk, saves>>
    /\ UNCHANGED <<gatewayVars, poolVars, pollVars, refreshVars, persistVars,
                   attachVars, instVars>>

\* _do_save takes the lock and opens the file for writing, which empties it
Write_Open ==
    /\ save_tasks > 0
    /\ ~writing
    /\ ~loading
    /\ \E ok \in BOOLEAN :
          IF ok THEN /\ disk' = EmptyFile
                     /\ writing' = TRUE
                     /\ UNCHANGED save_tasks
          ELSE /\ save_tasks' = save_tasks - 1
               /\ UNCHANGED <<disk, writing>>
    /\ UNCHANGED <<upload_cache, cache_loaded, load_cache_launched,
                   load_tasks, loading, load_runs, saves>>
    /\ UNCHANGED <<gatewayVars, poolVars, pollVars, refreshVars, persistVars,
                   attachVars, instVars>>

\* _do_save writes json.dumps(self.upload_cache) as the cache is now
Write_Finish ==
    /\ writing
    /\ \E ok \in BOOLEAN :
          disk' = IF ok THEN JsonFile(upload_cache) ELSE disk
    /\ writing' = FALSE
    /\ save_tasks' = save_tasks - 1
    /\ UNCHANGED <<upload_cache, cache_loaded, load_cache_launched,
                   load_tasks, loading, load_runs, saves>>
    /\ UNCHANGED <<gatewayVars, poolVars, pollVars, refreshVars, persistVars,
                   attachVars, instVars>>

NextUpload ==
    \/ Save_Start
    \/ Save_Fetched
    \/ Save_Uploaded
    \/ Load_Run
    \/ Load_Finish
    \/ Write_Open
    \/ Write_Finish

SpecUpload == InitUpload /\ [][NextUpload]_vars

\* two save_url calls of the same bytes, one after the other: the second
\* started after the first returned, no other call was in flight meanwhile,
\* and both returned a URL (the download and the upload succeeded)
Successive(c1, c2) ==
    /\ c2 = c1 + 1
    /\ saves[c1].pc = "done" /\ saves[c2].pc = "done"
    /\ saves[c1].x \in Blobs /\ saves[c2].x = saves[c1].x
    /\ saves[c1].alone /\ saves[c2].alone
    /\ saves[c1].url # NoUrl /\ saves[c2].url # NoUrl

\* C5 as stated: whatever the state of the cache lifecycle at the first
\* call, two successive save_url calls with the same bytes trigger exactly
\* one upload and return the same URL.
C5_OneUploadSameUrl ==
    \A c1, c2 \in 1..MaxSaves :
        Successive(c1, c2) =>
            /\ saves[c1].uploaded + saves[c2].uploaded = 1
            /\ saves[c1].url = saves[c2].url

\* C5, amended: two successive save_url calls with the same bytes return
\* the same URL exactly when the cache was loaded by the time the first
\* call returned and mapped the bytes to the URL it returned (it found the
\* entry, or there was none and its upload was recorded); the second call
\* then uploads nothing, so the two calls trigger at most one upload.
\* Otherwise (the cache was not loaded when the first upload completed, or
\* the load brought an older entry for the bytes) the second call returns
\* a different URL.
C5_SameUrlIffRecorded ==
    \A c1, c2 \in 1..MaxSaves :
        Successive(c1, c2) =>
            /\ saves[c1].kept =>
                  /\ saves[c2].url = saves[c1].url
                  /\ saves[c2].uploaded = 0
            /\ ~saves[c1].kept =>
                  /\ saves[c1].uploaded = 1
                  /\ saves[c2].url # saves[c1].url

\* the first call uploaded and its URL was recorded, the second call found
\* it
C5_Witness ==
    \E c1, c2 \in 1..MaxSaves :
        /\ Successive(c1, c2)
        /\ saves[c1].uploaded = 1
        /\ saves[c1].kept
        /\ saves[c2].url = UploadedUrl(c1)

\* the URL a call was given, for the inputs that are URLs containing
\* 'cdn.qwen.ai'; only the first is a URL of that host
InputUrl(x) == IF x = "vendor" THEN VendorUrl ELSE LookalikeUrl

OnVendorHost(x) == x = "vendor"

\* the step is a save_url call that starts with input x and returns at once
ReturnsAtStart(x) ==
    \E c \in 1..MaxSaves :
        /\ saves[c].pc = "idle"
        /\ saves'[c].pc = "done"
        /\ saves'[c].x = x

\* C22 (as claimed): save_url with a URL of the vendor's asset host returns
\* that URL at once, without a download, an upload, a load or write task or
\* a change of the cache; a URL of any other host is never the URL that
\* save_url returns for it.
C22_VendorPassthroughOnly ==
    /\ [](\A c \in 1..MaxSaves :
             /\ saves[c].x = "vendor" =>
                   /\ saves[c].pc = "done"
                   /\ saves[c].url = VendorUrl
                   /\ saves[c].uploaded = 0
             /\ (saves[c].x \in {"vendor", "lookalike"}
                    /\ ~OnVendorHost(saves[c].x)) =>
                   saves[c].url # InputUrl(saves[c].x))
    /\ [][ReturnsAtStart("vendor") =>
             UNCHANGED <<upload_cache, cache_loaded, load_cache_launched,
                         load_tasks, loading, load_runs, save_tasks,
                         writing, disk>>]_vars

\* two save_url calls of the same bytes that overlap: the second started
\* while the first was in flight, and both returned a URL
Concurrent(c1, c2) ==
    /\ c1 < c2
    /\ saves[c1].pc = "done" /\ saves[c2].pc = "done"
    /\ saves[c1].x \in Blobs /\ saves[c2].x = saves[c1].x
    /\ ~saves[c2].alone
    /\ saves[c1].url # NoUrl /\ saves[c2].url # NoUrl

\* C24 (as claimed): however concurrent save_url calls with the same bytes
\* interleave, at most one of them uploads, and all of them return one URL,
\* the URL the cache holds for the digest of the bytes.
C24_OneObjectPerContent ==
    \A c1, c2 \in 1..MaxSaves :
        Concurrent(c1, c2) =>
            /\ saves[c1].uploaded + saves[c2].uploaded <= 1
            /\ saves[c1].url = saves[c2].url
            /\ upload_cache[file_sha256(saves[c1].x)] = saves[c1].url

\* the lifecycle of the cache: unloaded (0), loading (1), ready (2)
Lifecycle ==
    IF cache_loaded THEN 2 ELSE IF load_cache_launched THEN 1 ELSE 0

\* the step takes call c through the duplicate check
LooksUp(c) ==
    /\ saves[c].pc \in {"idle", "fetch"}
    /\ saves'[c].pc \in {"upload", "done"}
    /\ saves'[c].x \in Blobs
    /\ saves'[c].pc = "done" => saves'[c].url # NoUrl

\* C31: a lookup made while the cache is unloaded or loading is a miss and
\* waits for nothing (the call goes on to upload in the same step, and a
\* call that awaits its download is never held back by the load); the
\* lifecycle never moves backwards; the body of the load runs at most once.
C31_LookupNeverWaitsForLoad ==
    /\ [][\A c \in 1..MaxSaves :
             (LooksUp(c) /\ Lifecycle < 2) =>
                /\ saves'[c].pc = "upload"
                /\ saves'[c].url = NoUrl
                /\ upload_cache' = upload_cache]_vars
    /\ [](\A c \in 1..MaxSaves :
             saves[c].pc = "fetch" =>
                ENABLED (Save_Fetched /\ saves'[c].pc \in {"upload", "done"}))
    /\ [][Lifecycle' >= Lifecycle]_vars
    /\ [](load_runs <= 1)
    /\ [](load_runs = 0 <=> Lifecycle = 0)

\* a call looked its bytes up while the load was reading a file that maps
\* them, and went on to upload
C31_Witness ==
    /\ loading
    /\ load_runs = 1
    /\ disk.state = "ok"
    /\ \E c \in 1..MaxSaves :
          /\ saves[c].pc = "upload"
          /\ ~saves[c].alone
          /\ disk.map[file_sha256(saves[c].x)] # NoUrl

\* C32: the cache that lookups consult is append-only: a digest that is
\* mapped to a URL keeps that URL through every later step (saves of the
\* same or of other bytes, failed downloads and uploads, the end of the
\* load, failed cache writes).
C32_AppendOnly ==
    [][\A b \in Blobs :
          upload_cache[file_sha256(b)] # NoUrl =>
             upload_cache'[file_sha256(b)] = upload_cache[file_sha256(b)]]_vars

\* a digest is mapped and a later upload of the same bytes, which returned
\* another URL, has left the mapping as it was
C32_Witness ==
    \E c1, c2 \in 1..MaxSaves :
        /\ c1 # c2
        /\ saves[c1].pc = "done" /\ saves[c2].pc = "done"
        /\ saves[c1].x \in Blobs /\ saves[c2].x = saves[c1].x
        /\ saves[c1].uploaded = 1 /\ saves[c2].uploaded = 1
        /\ saves[c1].url # NoUrl /\ saves[c2].url # NoUrl
        /\ saves[c1].url # saves[c2].url
        /\ upload_cache[file_sha256(saves[c1].x)] = saves[c1].url
        /\ cache_loaded

(***************************************************************************)
(* Attachments of one chat request: process_user_images                    *)
(* (app/service/message_service.py) and the content loop of                *)
(* RequestService.chat_completion (app/services/request.py), each calling  *)
(* UploadService.save_url for the images of the user message and then      *)
(* issuing the completion call.  An item of the content list is "text",    *)
(* "data" (an image_url item with a data:image/ URL) or "http" (an         *)
(* image_url item with any other URL); "image" is the item that carries    *)
(* the uploaded URL.  An entry of new_content is [from, item]: the         *)
(* position of the item it was made from, and the item sent.               *)
(***************************************************************************)
Items == {"text", "data", "http"}

Orchestrators == {"process_user_images", "chat_completion"}

\* what the body of save_url comes to: a URL or None, or an exception
SaveResult(url, raised) == [url |-> url, raised |-> raised]

\* save_url without its handler: the exception leaves the call
save_url_raises(r) == r

\* save_url: `except Exception` logs the exception and returns None
save_url(r) == IF r.raised THEN SaveResult(NoUrl, FALSE) ELSE r

\* the request arrives: the content list of its user message
InitAttach ==
    /\ orchestrator \in Orchestrators
    /\ user_content \in UNION {[1..n -> Items] : n \in 0..MaxItems}
    /\ item_pos = 1
    /\ attach_pc = "item"
    /\ new_content = <<>>
    /\ failed_items = {}
    /\ completion = "none"
    /\ GatewayIdle
    /\ PoolIdle
    /\ UploadIdle
    /\ PollIdle
    /\ RefreshIdle
    /\ PersistIdle
    /\ InstIdle

\* the item goes to save_url: process_user_images uploads the data:image/
\* URLs only, chat_completion every image_url item
Saved(o, item) ==
    IF o = "process_user_images" THEN item = "data" ELSE item # "text"

\* the loop takes the next item: it calls save_url for it, or appends it
Attach_Item ==
    /\ attach_pc = "item"
    /\ item_pos <= Len(user_content)
    /\ IF Saved(orchestrator, user_content[item_pos])
       THEN /\ attach_pc' = "materialize"
            /\ UNCHANGED <<item_pos, new_content>>
       ELSE /\ new_content' = Append(new_content,
                                     [from |-> item_pos,
                                      item |-> user_content[item_pos]])
            /\ item_pos' = item_pos + 1
            /\ UNCHANGED attach_pc
    /\ UNCHANGED <<orchestrator, user_content, failed_items, completion>>
    /\ UNCHANGED <<gatewayVars, poolVars, uploadVars, pollVars, refreshVars,
                   persistVars, instVars>>

\* the caller gets the result r of save_url and goes on: a URL replaces the
\* item; with None process_user_images keeps the item and chat_completion
\* leaves it out; an exception is logged by process_user_images, which
\* keeps the item, and ends chat_completion in its own handler, which
\* returns the error
Save_Returns(r) ==
    /\ failed_items' = IF r.url = NoUrl THEN failed_items \cup {item_pos}
                       ELSE failed_items
    /\ IF r.raised /\ orchestrator = "chat_completion"
       THEN /\ attach_pc' = "done"
            /\ completion' = "aborted"
            /\ UNCHANGED <<item_pos, new_content>>
       ELSE /\ attach_pc' = "item"
            /\ item_pos' = item_pos + 1
            /\ new_content' =
                  IF r.url # NoUrl
                  THEN Append(new_content,
                              [from |-> item_pos, item |-> "image"])
                  ELSE IF orchestrator = "process_user_images"
                  THEN Append(new_content,
                              [from |-> item_pos,
                               item |-> user_content[item_pos]])
                  ELSE new_content
            /\ UNCHANGED completion

\* save_url gets the bytes: base64.b64decode of a data: URL gives them or
\* raises; the download of any other URL answers 200, answers another
\* status (save_url returns None) or raises
Attach_Materialize ==
    /\ attach_pc = "materialize"
    /\ \E got \in {"bytes", "status", "raises"} :
          /\ got = "status" => user_content[item_pos] = "http"
          /\ CASE got = "bytes" ->
                    /\ attach_pc' = "upload"
                    /\ UNCHANGED <<item_pos, new_content, failed_items,
                                   completion>>
               [] got = "status" ->
                    Save_Returns(save_url(SaveResult(NoUrl, FALSE)))
               [] got = "raises" ->
                    Save_Returns(save_url(SaveResult(NoUrl, TRUE)))
    /\ UNCHANGED <<orchestrator, user_content>>
    /\ UNCHANGED <<gatewayVars, poolVars, uploadVars, pollVars, refreshVars,
                   persistVars, instVars>>

\* the duplicate check finds the bytes, or _upload_to_oss returns the
\* file_url or None (it catches its own exceptions), or
\* asyncio.wait_for raises TimeoutError after 30 seconds
Attach_Upload ==
    /\ attach_pc = "upload"
    /\ \E got \in {"cached", "url", "none", "timeout"} :
          Save_Returns(save_url(
              CASE got = "cached" -> SaveResult(OldUrl, FALSE)
                [] got = "url" -> SaveResult(UploadedUrl(item_pos), FALSE)
                [] got = "none" -> SaveResult(NoUrl, FALSE)
                [] got = "timeout" -> SaveResult(NoUrl, TRUE)))
    /\ UNCHANGED <<orchestrator, user_content>>
    /\ UNCHANGED <<gatewayVars, poolVars, uploadVars, pollVars, refreshVars,
                   persistVars, instVars>>

\* the loop is over: the completion call is issued with the new content
Attach_Call ==
    /\ attach_pc = "item"
    /\ item_pos > Len(user_content)
    /\ attach_pc' = "done"
    /\ completion' = "issued"
    /\ UNCHANGED <<orchestrator, user_content, item_pos, new_content,
                   failed_items>>
    /\ UNCHANGED <<gatewayVars, poolVars, uploadVars, pollVars, refreshVars,
                   persistVars, instVars>>

NextAttach ==
    \/ Attach_Item
    \/ Attach_Materialize
    \/ Attach_Upload
    \/ Attach_Call

SpecAttach == InitAttach /\ [][NextAttach]_vars

\* the entries of new_content made from the item at position p
SentFor(p) ==
    {new_content[i].item :
        i \in {j \in 1..Len(new_content) : new_content[j].from = p}}

\* C23: a save_url call that fails never aborts the chat request: the
\* request goes on until the completion call is issued, and the content it
\* is issued with has the item of a failed save as it was received or not
\* at all.
C23_SaveFailureDegrades ==
    /\ [](completion # "aborted")
    /\ [](attach_pc # "done" => ENABLED NextAttach)
    /\ [](attach_pc = "done" =>
             /\ completion = "issued"
             /\ \A p \in failed_items : SentFor(p) \subseteq {user_content[p]})

\* a request whose save_url calls failed in both orchestrators' ways has
\* had its completion call issued
C23_Witness ==
    /\ attach_pc = "done"
    /\ completion = "issued"
    /\ failed_items # {}
    /\ \E p \in failed_items : SentFor(p) = {}

(***************************************************************************)
(* The AccountManager instances of one process (app/core/                   *)
(* account_manager.py).  Every AccountService and the CompletionService    *)
(* construct an AccountManager of their own; each loads config/            *)
(* accounts.yml once, in __init__, and writes its whole list back in       *)
(* save_accounts.  The signin endpoint issues a new token at every login   *)
(* it accepts; tokens are numbered in the order they are issued.           *)
(***************************************************************************)
\* the instances that are asked to log in
LoginInstances == {"refresh", "admin"}

SigninToken(n) == 20 + n

\* get_account_by_username: the position of the first account of the
\* username, 0 for None
get_account_by_username(list, u) == first_of_username(list, u)

\* AccountManager.__init__ of every instance: load_accounts
InitInst ==
    /\ core_file \in SmallAccountFiles
    /\ inst_accounts = [i \in Instances |-> core_file]
    /\ inst_logins = 0
    /\ last_login = NoLogin
    /\ GatewayIdle
    /\ PoolIdle
    /\ UploadIdle
    /\ PollIdle
    /\ RefreshIdle
    /\ PersistIdle
    /\ AttachIdle

\* AccountService.login(username, password) on instance i.  A refused
\* login raises.  An accepted one calls add_account, which raises
\* ValueError for a known username, and the handler stores the new token
\* with update_account, which saves; for a new username add_account returns a dict that
\* it does not append, complete_account_info does not find the username
\* and returns False, and login raises.
Inst_Login ==
    /\ inst_logins < MaxSignins
    /\ \E i \in LoginInstances, u \in Usernames, accepted \in BOOLEAN :
          LET list == inst_accounts[i]
              k == get_account_by_username(list, u)
              updated == [list EXCEPT ![k].token =
                                          SigninToken(inst_logins + 1)]
          IN
          /\ inst_logins' = IF accepted THEN inst_logins + 1 ELSE inst_logins
          /\ IF accepted /\ k # 0
             THEN /\ inst_accounts' = [inst_accounts EXCEPT ![i] = updated]
                  /\ core_file' = updated
             ELSE UNCHANGED <<inst_accounts, core_file>>
          /\ last_login' = [instance |-> i, username |-> u,
                            accepted |-> accepted, known |-> k # 0,
                            result |-> IF accepted /\ k # 0 THEN "returned"
                                       ELSE "raised"]
    /\ UNCHANGED <<gatewayVars, poolVars, uploadVars, pollVars, refreshVars,
                   persistVars, attachVars>>

\* AccountService.logout(username) of the account router: delete_account
\* saves when it removed an account
Inst_Delete ==
    /\ \E u \in Usernames :
          LET list == inst_accounts["admin"]
              kept == SelectSeq(list, LAMBDA a : a.username # u)
          IN
          /\ Len(kept) < Len(list)
          /\ inst_accounts' = [inst_accounts EXCEPT !["admin"] = kept]
          /\ core_file' = kept
    /\ UNCHANGED <<inst_logins, last_login>>
    /\ UNCHANGED <<gatewayVars, poolVars, uploadVars, pollVars, refreshVars,
                   persistVars, attachVars>>

\* update_common_cookies of the account router: save_accounts writes the
\* list of the instance
Inst_UpdateCookies ==
    /\ core_file # inst_accounts["admin"]
    /\ core_file' = inst_accounts["admin"]
    /\ UNCHANGED <<inst_accounts, inst_logins, last_login>>
    /\ UNCHANGED <<gatewayVars, poolVars, uploadVars, pollVars, refreshVars,
                   persistVars, attachVars>>

NextInst ==
    \/ Inst_Login
    \/ Inst_Delete
    \/ Inst_UpdateCookies

SpecInst == InitInst /\ [][NextInst]_vars

WithUsername(list, u) == {k \in 1..Len(list) : list[k].username = u}

\* C35 (as claimed): when the signin endpoint accepts the login of a
\* username the pool does not hold, login returns the account, and the
\* pool then holds exactly one account of that username, with the token
\* issued, and the file holds the pool.
C35_NewAccountStored ==
    [][(Inst_Login /\ last_login'.accepted /\ ~last_login'.known) =>
         LET list == inst_accounts'[last_login'.instance] IN
         /\ last_login'.result = "returned"
         /\ Cardinality(WithUsername(list, last_login'.username)) = 1
         /\ \A k \in WithUsername(list, last_login'.username) :
               list[k].token = SigninToken(inst_logins')
         /\ core_file' = list]_vars

\* get_account_by_token of an instance finds the token
FindsToken(i, t) ==
    \E k \in 1..Len(inst_accounts[i]) : inst_accounts[i][k].token = t

\* the token the file holds for a username, 0 when it holds none
FileToken(file, u) ==
    IF WithUsername(file, u) = {} THEN 0
    ELSE file[CHOOSE k \in WithUsername(file, u) :
                 \A k2 \in WithUsername(file, u) : k <= k2].token

\* C37 (as claimed): the instances agree: a token that the refresh
\* instance holds for a credential is found by CompletionService's own
\* instance, and no save replaces the token the file holds for a username
\* by one issued earlier.
C37_InstancesAgree ==
    /\ [](\A k \in 1..Len(inst_accounts["refresh"]) :
             FindsToken("completion", inst_accounts["refresh"][k].token))
    /\ [][\A u \in Usernames :
             (FileToken(core_file, u) # 0 /\ FileToken(core_file', u) # 0)
                => FileToken(core_file', u) >= FileToken(core_file, u)]_vars

(***************************************************************************)
(* Task poller: TaskService._poll_task (app/service/task_service.py);      *)
(* RequestService.await_image (app/services/request.py) runs the same      *)
(* loop.                                                                   *)
(*                                                                         *)
(* Time is counted in whole seconds.  A status check takes 0 or 1 second,  *)
(* a sleep takes retry_interval.  events lists what the call did, in       *)
(* order: [e |-> "check", r |-> the answer, d |-> seconds the check took,  *)
(* at |-> time.time() - start_time once it returned] and [e |-> "sleep",   *)
(* r |-> "", d |-> seconds slept, at |-> the time it ended].               *)
(***************************************************************************)
\* the answers of get_task_status: the task is still running (no failed
\* status, no content), has failed, has content (with task_status success,
\* or, content_only, with a task_status that is neither success nor
\* failed), has failed and has content, or the check raises
StatusResponses ==
    {"pending", "failed", "content", "content_only", "failed_content",
     "raises"}

\* the loops: TaskService._poll_task (RequestService.await_image has the
\* same body) and RequestService.await_video
Pollers == {"_poll_task", "await_video"}

\* the test of the success branch: `status.get("content")` in _poll_task,
\* `task_status == 'success' and response.get('content')` in await_video
has_content(p, status) ==
    \/ status = "content"
    \/ status = "content_only" /\ p = "_poll_task"

Latencies == {0, 1}

Intervals == {1, 2}

Timeouts == {2, 5}

\* the clock of the model stops at MaxElapsed, past every timeout
Tick(t, d) == IF t + d > MaxElapsed THEN MaxElapsed ELSE t + d

\* _poll_task is called: start_time = time.time(), retry_count = 0
InitPoll ==
    /\ max_retries \in 0..MaxRetries
    /\ retry_interval \in Intervals
    /\ timeout \in Timeouts
    /\ poll_pc = "check"
    /\ retry_count = 0
    /\ elapsed = 0
    /\ events = <<>>
    /\ poll_result = "none"
    /\ poller \in Pollers
    /\ poll_payload = "none"
    /\ GatewayIdle
    /\ PoolIdle
    /\ UploadIdle
    /\ RefreshIdle
    /\ PersistIdle
    /\ AttachIdle
    /\ InstIdle

\* while retry_count < max_retries
loop_continues_inclusive(count, max) == count <= max

loop_continues(count, max) == count < max

\* if time.time() - start_time > timeout
timed_out_late(seconds, limit) == seconds > limit + 1

timed_out(seconds, limit) == seconds > limit

\* one status check and what the loop body decides from it: failed, then
\* content, then the timeout; otherwise, and when the check raises, the
\* call goes to sleep
Poll_Check ==
    /\ poll_pc = "check"
    /\ loop_continues(retry_count, max_retries)
    /\ \E status \in StatusResponses, latency \in Latencies :
          /\ elapsed' = Tick(elapsed, latency)
          /\ events' = Append(events, [e |-> "check", r |-> status,
                                       d |-> latency, at |-> elapsed'])
          /\ CASE status = "raises" ->
                    /\ poll_pc' = "sleep"
                    /\ UNCHANGED <<poll_result, poll_payload>>
               [] status \in {"failed", "failed_content"} ->
                    /\ poll_pc' = "done"
                    /\ poll_result' = "failed"
                    /\ poll_payload' = "message"
               [] has_content(poller, status) ->
                    /\ poll_pc' = "done"
                    /\ poll_result' = "success"
                    /\ poll_payload' = "content"
               [] status \in {"pending", "content_only"}
                     /\ ~has_content(poller, status)
                     /\ timed_out(elapsed', timeout) ->
                    /\ poll_pc' = "done"
                    /\ poll_result' = "timeout"
                    /\ poll_payload' = "none"
               [] status \in {"pending", "content_only"}
                     /\ ~has_content(poller, status)
                     /\ ~timed_out(elapsed', timeout) ->
                    /\ poll_pc' = "sleep"
                    /\ UNCHANGED <<poll_result, poll_payload>>
    /\ UNCHANGED <<max_retries, retry_interval, timeout, retry_count,
                   poller>>
    /\ UNCHANGED <<gatewayVars, poolVars, uploadVars, refreshVars, persistVars,
                   attachVars, instVars>>

\* asyncio.sleep(retry_interval) returns; retry_count += 1
Poll_Wake ==
    /\ poll_pc = "sleep"
    /\ elapsed' = Tick(elapsed, retry_interval)
    /\ events' = Append(events, [e |-> "sleep", r |-> "",
                                 d |-> retry_interval, at |-> elapsed'])
    /\ retry_count' = retry_count + 1
    /\ poll_pc' = "check"
    /\ UNCHANGED <<max_retries, retry_interval, timeout, poll_result,
                   poller, poll_payload>>
    /\ UNCHANGED <<gatewayVars, poolVars, uploadVars, refreshVars, persistVars,
                   attachVars, instVars>>

\* the loop ends without a terminal status
Poll_Exhausted ==
    /\ poll_pc = "check"
    /\ ~loop_continues(retry_count, max_retries)
    /\ poll_pc' = "done"
    /\ poll_result' = "max_retries_exceeded"
    /\ poll_payload' = "none"
    /\ UNCHANGED <<max_retries, retry_interval, timeout, retry_count,
                   elapsed, events, poller>>
    /\ UNCHANGED <<gatewayVars, poolVars, uploadVars, refreshVars, persistVars,
                   attachVars, instVars>>

NextPoll ==
    \/ Poll_Check
    \/ Poll_Wake
    \/ Poll_Exhausted

SpecPoll == InitPoll /\ [][NextPoll]_vars

\* the status checks of the call, as positions in events
Checks == {i \in 1..Len(events) : events[i].e = "check"}

\* every status check so far found the task pending, with the timeout not
\* yet exceeded
AlwaysPending ==
    \A i \in Checks : events[i].r = "pending" /\ events[i].at <= timeout

\* C8: when every status check returns a pending status and the timeout
\* does not elapse, the finished call made exactly max_retries checks,
\* slept retry_interval (once) between every two consecutive checks, and
\* returned max_retries_exceeded.
C8_PendingUntilExhausted ==
    (poll_pc = "done" /\ AlwaysPending) =>
        /\ Cardinality(Checks) = max_retries
        /\ poll_result = "max_retries_exceeded"
        /\ \A i, j \in Checks :
              (i < j /\ \A m \in (i + 1)..(j - 1) : m \notin Checks) =>
                 /\ j = i + 2
                 /\ events[i + 1].e = "sleep"
                 /\ events[i + 1].d = retry_interval

\* a call with at least two attempts that found the task pending at each
\* of them and has returned
C8_Witness ==
    /\ poll_pc = "done"
    /\ AlwaysPending
    /\ max_retries >= 2
    /\ Cardinality(Checks) = max_retries
    /\ poll_result = "max_retries_exceeded"

\* the last status check of the call
LastCheck == events[Len(events)]

\* C25 (as claimed): a status check that answers failed ends the call with
\* the failure and the message of the backend, whether or not the answer
\* has content; any other answer that has content ends the call with
\* success and the content, also when the time elapsed exceeds timeout.
C25_FailedThenContentThenTimeout ==
    [][\A status \in StatusResponses :
          (Poll_Check /\ LastCheck'.r = status) =>
             /\ status \in {"failed", "failed_content"} =>
                   /\ poll_pc' = "done"
                   /\ poll_result' = "failed"
                   /\ poll_payload' = "message"
             /\ status \in {"content", "content_only"} =>
                   /\ poll_pc' = "done"
                   /\ poll_result' = "success"
                   /\ poll_payload' = "content"]_vars

\* C26: a status check that finds the task neither failed nor with
\* content, with the time elapsed past timeout, ends the call with timeout
\* at once: the call does not sleep and consumes no attempt.
C26_TimeoutInSameIteration ==
    [][(Poll_Check /\ LastCheck'.r = "pending"
           /\ LastCheck'.at > timeout) =>
          /\ poll_pc' = "done"
          /\ poll_result' = "timeout"
          /\ retry_count' = retry_count
          /\ events' = Append(events, LastCheck')]_vars

\* a call that slept at least once and then returned timeout from a check
\* that found the task pending
C26_Witness ==
    /\ poll_pc = "done"
    /\ poll_result = "timeout"
    /\ retry_count >= 1
    /\ LastCheck.e = "check"
    /\ LastCheck.r = "pending"
    /\ LastCheck.at > timeout

\* the event loop resumes the coroutine: a status check returns or raises
\* (the request has a timeout of 30 seconds), a sleep ends
FairSpecPoll == SpecPoll /\ WF_vars(NextPoll)

Sleeps == {i \in 1..Len(events) : events[i].e = "sleep"}

AlwaysRaises == \A i \in Checks : events[i].r = "raises"

\* C27: a status check that raises does not end the call: it is followed
\* by one sleep of retry_interval, which consumes one attempt, and then by
\* the next test of the loop; a call whose checks all raised made exactly
\* max_retries checks and returned max_retries_exceeded; every call
\* returns, after at most max_retries checks.
C27_RaisingCheckConsumesAttempt ==
    /\ [](\A i \in Checks :
             events[i].r = "raises" =>
                /\ i = Len(events) => poll_pc = "sleep"
                /\ i < Len(events) =>
                      /\ events[i + 1].e = "sleep"
                      /\ events[i + 1].d = retry_interval
                /\ i + 1 < Len(events) => events[i + 2].e = "check")
    /\ [](retry_count = Cardinality(Sleeps))
    /\ [][(Poll_Check /\ LastCheck'.r = "raises") =>
             /\ retry_count' = retry_count
             /\ poll_result' = poll_result]_vars
    /\ [][Poll_Wake => retry_count' = retry_count + 1]_vars
    /\ []((poll_pc = "done" /\ AlwaysRaises) =>
             /\ Cardinality(Checks) = max_retries
             /\ poll_result = "max_retries_exceeded")
    /\ [](Cardinality(Checks) <= max_retries)
    /\ <>(poll_pc = "done")

\* a call with at least two attempts whose checks all raised and that has
\* returned
C27_Witness ==
    /\ poll_pc = "done"
    /\ max_retries >= 2
    /\ AlwaysRaises
    /\ Cardinality(Checks) = max_retries
    /\ Cardinality(Sleeps) = max_retries
    /\ poll_result = "max_retries_exceeded"

\* the time at which event i started: the end of the event before it
StartOf(i) == IF i = 1 THEN 0 ELSE events[i - 1].at

\* the status checks that were started with the timeout already exceeded
LateChecks ==
    {i \in 1..Len(events) :
        events[i].e = "check" /\ timed_out(StartOf(i), timeout)}

\* C39 (as claimed): once the elapsed time exceeds timeout the poll makes at
\* most one more status check before it returns, also when the status
\* checks raise.
C39_OneCheckAfterTimeout == Cardinality(LateChecks) <= 1

====
